---------------------------- MODULE Spec2Model ----------------------------
(***************************************************************************)
(* Translation + TTS + playback server of claude-voice-hooks.              *)
(*                                                                         *)
(*   server/app.py                      lifespan, POST /translate_and_speak*)
(*   server/models.py                   request validation                 *)
(*   server/core/translation_tts_worker.py   the three queues and workers  *)
(*   server/core/translation.py         translate_to_japanese,             *)
(*                                      postprocess_for_tts                *)
(*   server/core/tts_voicevox.py        synthesize_to_file                 *)
(*                                                                         *)
(* A text is a sequence of one-character strings.  Characters outside      *)
(* ASCII are written as tokens: "LQ" is U+300E, "RQ" is U+300F, "jp_*" are *)
(* hiragana / katakana / CJK characters, "chouon" is U+30FC, "wave" is     *)
(* U+FF5E, "wave2" is U+301C, "pct" is U+FF05.                             *)
(*                                                                         *)
(* Coroutines are modelled by their position (pc) between two awaits: one  *)
(* action is the code a coroutine runs from one suspension point to the    *)
(* next.  asyncio.wait_for suspends its caller on Python <= 3.11 and runs  *)
(* the awaited coroutine inline on Python >= 3.12; the model keeps the     *)
(* suspension points, and the inline behaviour is the interleaving in      *)
(* which the steps follow each other directly.                             *)
(***************************************************************************)
EXTENDS Integers, Sequences, FiniteSets, TLC

(***************************************************************************)
(* Bounds of the model.                                                    *)
(***************************************************************************)
MaxRequests == 2
MaxStarts == 2
MaxTime == 2
MaxLines == 2
MaxBlocks == 2
MaxLen == 5
MaxStream == 3

(***************************************************************************)
(* Program constants.                                                      *)
(***************************************************************************)
DEDUP_WINDOW == 1
SEMAPHORE_SLOTS == 1
HTTP_200_OK == 200
HTTP_202_ACCEPTED == 202
HTTP_422_UNPROCESSABLE == 422
HTTP_503_SERVICE_UNAVAILABLE == 503
NoTime == -1

OpenMark == "LQ"
CloseMark == "RQ"
NoText == <<"<None>">>
Missing == <<"<missing>">>
NoReq == [request_id |-> 0]
NoResponse == [code |-> 0]

Stages == {"translation", "tts", "audio_play"}

(***************************************************************************)
(* Characters and strings.                                                 *)
(***************************************************************************)
Whitespace == {" ", "\n"}
Digits == {"0", "1", "2", "3"}
UpperCase == {"A", "E", "H", "I", "L", "N", "O", "P", "T", "X"}
LowerCase == {"a", "b", "e", "h", "i", "l", "n", "o", "p", "t", "x"}
Japanese == {"jp_bun", "jp_no", "jp_te", "jp_n", "jp_ka", "jp_ra",
             "jp_pa", "jp_se", "jp_to", "jp_a"}

RECURSIVE lstrip(_)
lstrip(s) ==
    IF s # <<>> /\ Head(s) \in Whitespace THEN lstrip(Tail(s)) ELSE s

RECURSIVE rstrip(_)
rstrip(s) ==
    IF s # <<>> /\ s[Len(s)] \in Whitespace
    THEN rstrip(SubSeq(s, 1, Len(s) - 1))
    ELSE s

strip(s) == rstrip(lstrip(s))

startswith(s, c) == Len(s) >= 1 /\ s[1] = c
endswith(s, c) == Len(s) >= 1 /\ s[Len(s)] = c

lower(c) ==
    CASE c = "A" -> "a" [] c = "E" -> "e" [] c = "H" -> "h" [] c = "I" -> "i"
      [] c = "L" -> "l" [] c = "N" -> "n" [] c = "O" -> "o" [] c = "P" -> "p"
      [] c = "T" -> "t" [] c = "X" -> "x" [] OTHER -> c

(***************************************************************************)
(* postprocess_for_tts: the regex pipeline of server/core/translation.py.  *)
(***************************************************************************)
EXPLANATION == <<"e", "x", "p", "l", "a", "n", "a", "t", "i", "o", "n", ":">>
BUN_NO == <<"jp_bun", "jp_no">>
TEN == <<"jp_te", "jp_n">>
KARA == <<"jp_ka", "jp_ra">>
PERCENT == <<"jp_pa", "chouon", "jp_se", "jp_n", "jp_to">>

\* re.sub(r'Explanation:.*', '', text, flags=IGNORECASE | DOTALL); strip()
explanation_at(s, i) ==
    /\ i + Len(EXPLANATION) - 1 <= Len(s)
    /\ \A k \in 1..Len(EXPLANATION) : lower(s[i + k - 1]) = EXPLANATION[k]

remove_explanation(s) ==
    LET hits == {i \in 1..Len(s) : explanation_at(s, i)} IN
    IF hits = {} THEN strip(s)
    ELSE LET first == CHOOSE i \in hits : \A j \in hits : i <= j IN
         strip(SubSeq(s, 1, first - 1))

RECURSIVE run_end(_, _, _)
run_end(s, i, class) ==
    IF i + 1 <= Len(s) /\ s[i + 1] \in class THEN run_end(s, i + 1, class) ELSE i

\* re.sub(r'(\d+)/(\d+)', r'\1<bun no>\2', text): leftmost, non-overlapping
RECURSIVE sub_fractions(_, _)
sub_fractions(s, i) ==
    IF i > Len(s) THEN <<>>
    ELSE IF s[i] \in Digits
    THEN LET j == run_end(s, i, Digits) IN
         IF j + 2 <= Len(s) /\ s[j + 1] = "/" /\ s[j + 2] \in Digits
         THEN LET k == run_end(s, j + 2, Digits) IN
              SubSeq(s, i, j) \o BUN_NO \o SubSeq(s, j + 2, k)
                  \o sub_fractions(s, k + 1)
         ELSE <<s[i]>> \o sub_fractions(s, i + 1)
    ELSE <<s[i]>> \o sub_fractions(s, i + 1)

\* the characters at the positions `hits` replaced by the string r
RECURSIVE splice(_, _, _, _)
splice(s, i, hits, r) ==
    IF i > Len(s) THEN <<>>
    ELSE (IF i \in hits THEN r ELSE <<s[i]>>) \o splice(s, i + 1, hits, r)

after_digit(s, i) == i > 1 /\ s[i - 1] \in Digits
before_digit(s, i) == i < Len(s) /\ s[i + 1] \in Digits

\* re.sub(r'(?<=\d)\.(?=\d)', '<ten>', text)
sub_decimal_points(s) ==
    splice(s, 1, {i \in 1..Len(s) :
                    s[i] = "." /\ after_digit(s, i) /\ before_digit(s, i)}, TEN)

\* re.sub(r'(?<=\d)<U+FF5E>(?=\d)', '<kara>', text)
sub_wave_dash(s) ==
    splice(s, 1, {i \in 1..Len(s) :
                    s[i] = "wave" /\ after_digit(s, i) /\ before_digit(s, i)}, KARA)

\* re.sub(r'(?<=\d)[<U+FF05>%]', '<percent>', text)
sub_percent(s) ==
    splice(s, 1, {i \in 1..Len(s) :
                    s[i] \in {"%", "pct"} /\ after_digit(s, i)}, PERCENT)

\* text.replace('.', ' '); text.replace('-', ' '); text.replace('_', ' ')
replace_punctuation(s) ==
    splice(s, 1, {i \in 1..Len(s) : s[i] \in {".", "-", "_"}}, <<" ">>)

\* re.sub(r'[A-Z]{4,}', lambda m: m.group(0).capitalize(), text)
RECURSIVE capitalize_acronyms(_, _)
capitalize_acronyms(s, i) ==
    IF i > Len(s) THEN <<>>
    ELSE IF s[i] \in UpperCase
    THEN LET j == run_end(s, i, UpperCase) IN
         (IF j - i + 1 >= 4
          THEN <<s[i]>> \o [k \in 1..(j - i) |-> lower(s[i + k])]
          ELSE SubSeq(s, i, j)) \o capitalize_acronyms(s, j + 1)
    ELSE <<s[i]>> \o capitalize_acronyms(s, i + 1)

\* re.sub(r'([left])\s+([right])', r'\1\2', text)
RECURSIVE remove_spaces_between(_, _, _, _)
remove_spaces_between(s, i, left, right) ==
    IF i > Len(s) THEN <<>>
    ELSE IF s[i] \in Whitespace
    THEN LET j == run_end(s, i, Whitespace) IN
         (IF /\ i > 1 /\ s[i - 1] \in left
             /\ j < Len(s) /\ s[j + 1] \in right
          THEN <<>>
          ELSE SubSeq(s, i, j)) \o remove_spaces_between(s, j + 1, left, right)
    ELSE <<s[i]>> \o remove_spaces_between(s, i + 1, left, right)

Letters == UpperCase \cup LowerCase
AlphaNum == Letters \cup Digits

postprocess_for_tts(text) ==
    LET t0 == remove_explanation(text)
        t1 == sub_fractions(t0, 1)
        t2 == sub_decimal_points(t1)
        t3 == sub_wave_dash(t2)
        t4 == sub_percent(t3)
        t6 == replace_punctuation(t4)
        t7 == capitalize_acronyms(t6, 1)
        t8a == remove_spaces_between(t7, 1, AlphaNum, Japanese)
        t8b == remove_spaces_between(t8a, 1, Japanese, AlphaNum)
        t9a == remove_spaces_between(t8b, 1, Letters, Digits)
        t9b == remove_spaces_between(t9a, 1, Digits, Letters)
    IN  t9b

(***************************************************************************)
(* translate_to_japanese (server/core/translation.py): reply is the        *)
(* content of the model's answer, or ClientError when the chat call (or    *)
(* the ollama import) fails.                                               *)
(***************************************************************************)
ClientError == <<"<error>">>

translate_to_japanese(text, reply) ==
    IF strip(text) = <<>> THEN [kind |-> "ValueError", text |-> <<>>]
    ELSE IF reply = ClientError THEN [kind |-> "RuntimeError", text |-> <<>>]
    ELSE [kind |-> "ok", text |-> postprocess_for_tts(strip(reply))]

\* a worker that sends every text to the translator
never_pre_translated(text) == FALSE

\* req.text.startswith(OpenMark) and req.text.endswith(CloseMark)
pre_translated(text) == startswith(text, OpenMark) /\ endswith(text, CloseMark)

(***************************************************************************)
(* State.                                                                  *)
(***************************************************************************)
VARIABLES
    lifespan,               \* app.lifespan: "startup", "serving", "stopping",
                            \*               "stopped", "failed"
    worker_system,          \* app._translation_tts_worker: "None" or "set"
    tts_engine,             \* app._tts_engine: "None", "ready", "closed"
    running,                \* TranslationTTSWorkerSystem._running
    generation,             \* number of start() calls that created tasks
    tasks,                  \* <<stage, generation>> -> worker task
    stopping,               \* stop() calls waiting in asyncio.gather
    tts_semaphore,          \* value of _tts_semaphore
    translation_queue,
    tts_queue,
    audio_play_queue,
    stats,
    last_translation,       \* app._last_translation
    last_translation_time,  \* app._last_translation_time
    wall,                   \* what time.time() returns
    mono,                   \* elapsed real time
    requests,               \* the POST /translate_and_speak handlers, by
                            \* arrival, until their response is sent
    arrivals,               \* history: number of requests received
    files,                  \* request ids whose audio/tmp/tts_<id>.wav exists
    players,                \* request ids whose player subprocess is alive
    accepted,               \* history: the requests put on the queue, by request_id
    last_mono,              \* history: mono when last_translation was set
    dedup_lock,             \* app._dedup_lock: "free" or its holder
    health,                 \* the last response of GET /health
    normalizer,             \* postprocess_for_tts applied to a text, twice
    transcript,             \* the lines of the transcript file
    state_file,             \* hook/.last_thinking_hash
    hook                    \* one run of think_aloud_hook.main()

lifecycle == <<lifespan, worker_system, tts_engine>>
supervisor == <<running, generation, tasks, stopping, tts_semaphore>>
queues == <<translation_queue, tts_queue, audio_play_queue>>
dedup == <<last_translation, last_translation_time, last_mono, dedup_lock>>
clocks == <<wall, mono>>
disk == <<files, players>>
ingress == <<requests, arrivals, health>>
think_aloud == <<transcript, state_file, hook>>
\* what lives outside the server process
apart == <<normalizer, think_aloud>>
server == <<lifecycle, supervisor, queues, stats, dedup, clocks, ingress,
            disk, accepted>>
vars == <<server, apart>>

NewTask == [pc |-> "get", req |-> NoReq, cancelled |-> FALSE]
NoTask == [pc |-> "none", req |-> NoReq, cancelled |-> FALSE]
DoneTask == [pc |-> "done", req |-> NoReq, cancelled |-> FALSE]

\* the server process before lifespan runs
ServerInit ==
    /\ lifespan = "startup"
    /\ worker_system = "None"
    /\ tts_engine = "None"
    /\ running = FALSE
    /\ generation = 0
    /\ tasks = [t \in Stages \X (1..MaxStarts) |-> NoTask]
    /\ stopping = {}
    /\ tts_semaphore = SEMAPHORE_SLOTS
    /\ translation_queue = <<>>
    /\ tts_queue = <<>>
    /\ audio_play_queue = <<>>
    /\ stats = [translation_processed |-> 0, translation_failed |-> 0,
                tts_processed |-> 0, tts_failed |-> 0,
                audio_play_processed |-> 0, audio_play_failed |-> 0]
    /\ last_translation = NoText
    /\ last_translation_time = NoTime
    /\ wall = 0
    /\ mono = 0
    /\ requests = <<>>
    /\ arrivals = 0
    /\ files = {}
    /\ players = {}
    /\ accepted = <<>>
    /\ last_mono = NoTime
    /\ dedup_lock = "free"
    /\ health = NoResponse

(***************************************************************************)
(* TranslationTTSWorkerSystem.start / stop.                                *)
(***************************************************************************)
\* start(): the three tasks are created; a call while running returns
start ==
    /\ running' = TRUE
    /\ generation' = generation + 1
    /\ tasks' = [t \in DOMAIN tasks |->
                    IF t[2] = generation + 1 THEN NewTask ELSE tasks[t]]
    /\ UNCHANGED <<stopping, tts_semaphore>>

\* the tasks stop() cancels: the ones the last start() stored
cancel_targets == {t \in DOMAIN tasks : t[2] = generation}

\* Task.cancel(): a task that is done is left alone
cancel(task) ==
    IF task.pc \in {"none", "done"} THEN task ELSE [task EXCEPT !.cancelled = TRUE]

\* the stages in the order in which stop() calls cancel() on their tasks
cancel_order == <<"translation", "tts", "audio_play">>

\* stop() up to `await asyncio.wait_for(asyncio.gather(...))`
stop(caller) ==
    /\ running' = FALSE
    /\ tasks' = [t \in DOMAIN tasks |->
                    IF t \in cancel_targets THEN cancel(tasks[t]) ELSE tasks[t]]
    /\ stopping' = stopping \cup
           {[gen |-> generation, caller |-> caller, timed_out |-> FALSE,
             \* history, for the properties: the cancel() calls made, in order
             cancelled |-> SelectSeq(cancel_order,
                 LAMBDA stage : <<stage, generation>> \in cancel_targets)]}
    /\ UNCHANGED <<generation, tts_semaphore>>

workers_ended(gen) ==
    \A s \in Stages : tasks[<<s, gen>>].pc \in {"none", "done"}

\* gather() is done, every worker has ended: stop() returns, after logging
\* "Worker stop timeout exceeded" if the timeout had expired
StopReturn(call) ==
    /\ call \in stopping
    /\ workers_ended(call.gen)
    /\ stopping' = stopping \ {call}
    /\ UNCHANGED <<lifecycle, running, generation, tasks, tts_semaphore, queues,
                   stats, dedup, clocks, ingress, disk, accepted, apart>>

\* a wait_for that gives up at its timeout and leaves the workers alone
stop_abandoned(call) ==
    /\ call \in stopping
    /\ ~workers_ended(call.gen)
    /\ stopping' = stopping \ {call}
    /\ UNCHANGED <<lifecycle, running, generation, tasks, tts_semaphore, queues,
                   stats, dedup, clocks, ingress, disk, accepted, apart>>

\* the tasks of a generation after wait_for has cancelled its gather():
\* gather cancels every child that is not done
cancel_children(gen) ==
    [t \in DOMAIN tasks |-> IF t[2] = gen THEN cancel(tasks[t]) ELSE tasks[t]]

\* the timeout of wait_for expires with a worker still alive (its first
\* cancellation was swallowed): wait_for cancels the gather, which cancels
\* the workers again, and goes on waiting until the gather is done
StopTimeout(call) ==
    /\ call \in stopping
    /\ ~call.timed_out
    /\ ~workers_ended(call.gen)
    /\ \A s \in Stages : tasks[<<s, call.gen>>].pc # "got"
    /\ tasks' = cancel_children(call.gen)
    /\ stopping' = (stopping \ {call}) \cup {[call EXCEPT !.timed_out = TRUE]}
    /\ UNCHANGED <<lifecycle, running, generation, tts_semaphore, queues,
                   stats, dedup, clocks, ingress, disk, accepted, apart>>

\* a caller of the worker system other than lifespan calls start()
Start ==
    /\ worker_system = "set"
    /\ ~running
    /\ generation < MaxStarts
    /\ start
    /\ UNCHANGED <<lifecycle, queues, stats, dedup, clocks, ingress, disk,
                   accepted, apart>>

\* a caller of the worker system other than lifespan calls stop()
Stop ==
    /\ worker_system = "set"
    /\ running
    /\ stop("direct")
    /\ UNCHANGED <<lifecycle, queues, stats, dedup, clocks, ingress, disk,
                   accepted, apart>>

(***************************************************************************)
(* app.lifespan.                                                           *)
(***************************************************************************)
\* a lifespan that starts the workers without waiting for the health check
startup_unchecked(healthy) ==
    /\ lifespan = "startup"
    /\ tts_engine' = IF healthy THEN "ready" ELSE tts_engine
    /\ worker_system' = "set"
    /\ lifespan' = IF healthy THEN "serving" ELSE "failed"
    /\ start
    /\ UNCHANGED <<queues, stats, dedup, clocks, ingress, disk, accepted, apart>>

\* create_tts_engine_with_health_check, TranslationTTSWorkerSystem(), start()
Startup(healthy) ==
    /\ lifespan = "startup"
    /\ IF healthy
       THEN /\ tts_engine' = "ready"
            /\ worker_system' = "set"
            /\ lifespan' = "serving"
            /\ start
       ELSE /\ lifespan' = "failed"
            /\ UNCHANGED <<tts_engine, worker_system, supervisor>>
    /\ UNCHANGED <<queues, stats, dedup, clocks, ingress, disk, accepted, apart>>

\* the finally block of lifespan, up to the await inside stop()
Shutdown ==
    /\ lifespan = "serving"
    /\ lifespan' = "stopping"
    /\ IF running THEN stop("lifespan") ELSE UNCHANGED supervisor
    /\ UNCHANGED <<worker_system, tts_engine, queues, stats, dedup, clocks,
                   ingress, disk, accepted, apart>>

\* stop() has returned: _tts_engine.cleanup()
Cleanup ==
    /\ lifespan = "stopping"
    /\ \A call \in stopping : call.caller # "lifespan"
    /\ lifespan' = "stopped"
    /\ tts_engine' = "closed"
    /\ UNCHANGED <<worker_system, supervisor, queues, stats, dedup, clocks,
                   ingress, disk, accepted, apart>>

(***************************************************************************)
(* Time.                                                                   *)
(***************************************************************************)
\* one second passes
Tick ==
    /\ mono < MaxTime
    /\ mono' = mono + 1
    /\ wall' = wall + 1
    /\ UNCHANGED <<lifecycle, supervisor, queues, stats, dedup, ingress, disk,
                   accepted, apart>>

\* the system clock is set (NTP step, administrator): time.time() follows it
ClockSet(t) ==
    /\ t # wall
    /\ wall' = t
    /\ UNCHANGED <<mono, lifecycle, supervisor, queues, stats, dedup, ingress,
                   disk, accepted, apart>>

(***************************************************************************)
(* POST /translate_and_speak (server/app.py, server/models.py).            *)
(***************************************************************************)
\* TranslateAndSpeakRequest: text is a required str, nothing else is checked
valid_request(text) == text # Missing

\* the guard at the top of translate_and_speak
initialized == worker_system # "None"

\* a duplicate check that looks at the time only
is_duplicate_any_text(text, current_time) ==
    /\ last_translation_time # NoTime
    /\ current_time - last_translation_time <= DEDUP_WINDOW

\* a deduplicator that remembers every accepted text
is_duplicate_of_accepted(text, current_time) ==
    /\ \E i \in DOMAIN accepted : accepted[i].text = text
    /\ last_translation_time # NoTime
    /\ current_time - last_translation_time <= DEDUP_WINDOW

\* is_duplicate of dedup_check
is_duplicate(text, current_time) ==
    /\ text = last_translation
    /\ last_translation_time # NoTime
    /\ current_time - last_translation_time <= DEDUP_WINDOW

\* a dedup_check that records the text of a new request but not its time
dedup_text_only(text, current_time, duplicate) ==
    IF ~duplicate
    THEN <<text, last_translation_time>>
    ELSE <<last_translation, last_translation_time>>

\* a dedup_check that records every request
dedup_state_refreshed(text, current_time, duplicate) == <<text, current_time>>

\* (_last_translation, _last_translation_time) when dedup_check returns
dedup_state_after(text, current_time, duplicate) ==
    IF ~duplicate
    THEN <<text, current_time>>
    ELSE <<last_translation, last_translation_time>>

\* the status code of a route that declares none
default_status_code == HTTP_202_ACCEPTED - 2

\* the status code of a response the handler returns (route decorator)
response_status_code == HTTP_202_ACCEPTED

\* an enqueue_translation that puts the request at the head of the queue
enqueue_first(text, request_id, return_audio) ==
    <<[text |-> text, request_id |-> request_id,
       return_audio |-> return_audio]>> \o translation_queue

\* an enqueue_translation that drops the request
enqueue_nothing(text, request_id, return_audio) == translation_queue

\* self.translation_queue.put(TranslationRequest(...))
enqueue_translation(text, request_id, return_audio) ==
    Append(translation_queue,
           [text |-> text, request_id |-> request_id,
            return_audio |-> return_audio])

Handler(text, return_audio) ==
    [pc |-> "dedup", text |-> text, return_audio |-> return_audio,
     is_duplicate |-> FALSE, code |-> 0, status |-> "", queue_position |-> 0,
     request_id |-> 0,
     \* history, for the properties
     was_running |-> running,
     size_on_entry |-> Len(translation_queue),
     size_before_put |-> 0,
     seen_text |-> NoText, elapsed |-> NoTime]

\* the handlers left when the response of handler h is sent
remove(seq, h) == SubSeq(seq, 1, h - 1) \o SubSeq(seq, h + 1, Len(seq))

\* a request arrives: body validation (422), the initialization guard (503),
\* then the handler waits for dedup_check
arrival(text, return_audio, limit) ==
    /\ arrivals < limit
    /\ arrivals' = arrivals + 1
    /\ requests' = Append(requests,
          IF ~valid_request(text)
          THEN [Handler(text, return_audio) EXCEPT
                    !.pc = "done", !.code = HTTP_422_UNPROCESSABLE,
                    !.status = "error"]
          ELSE IF ~initialized
          THEN [Handler(text, return_audio) EXCEPT
                    !.pc = "done", !.code = HTTP_503_SERVICE_UNAVAILABLE,
                    !.status = "error"]
          ELSE Handler(text, return_audio))
    /\ UNCHANGED <<lifecycle, supervisor, queues, stats, dedup, clocks, health,
                   disk, accepted, apart>>

Arrive(text, return_audio) == arrival(text, return_audio, MaxRequests)

\* a dedup_check that does not wait for the lock
lock_ignored == TRUE

\* `async with _dedup_lock`: Lock.acquire() returns without waiting
lock_acquired == dedup_lock = "free"

\* dedup_check, under _dedup_lock: the lock is taken and released in one
\* step, dedup_check has no await inside the lock
DedupCheck(h) ==
    /\ h \in DOMAIN requests
    /\ requests[h].pc = "dedup"
    /\ lock_acquired
    /\ LET text == requests[h].text
           current_time == wall
           duplicate == is_duplicate(text, current_time)
           after == dedup_state_after(text, current_time, duplicate)
       IN  /\ last_translation' = after[1]
           /\ last_translation_time' = after[2]
           /\ last_mono' = IF duplicate THEN last_mono ELSE mono
           /\ requests' = [requests EXCEPT ![h] =
                  [@ EXCEPT !.pc = "decided", !.is_duplicate = duplicate,
                            !.seen_text = last_translation,
                            !.elapsed = IF last_mono = NoTime THEN NoTime
                                        ELSE mono - last_mono]]
    /\ UNCHANGED <<lifecycle, supervisor, queues, stats, clocks, arrivals,
                   health, dedup_lock, disk, accepted, apart>>

\* asyncio.TimeoutError from wait_for(dedup_check(), timeout=0.5): dedup_check
\* is cancelled while it waits for the lock, the handler raises HTTPException
DedupTimeout(h) ==
    /\ h \in DOMAIN requests
    /\ requests[h].pc = "dedup"
    /\ ~lock_acquired
    /\ requests' = [requests EXCEPT ![h] =
           [@ EXCEPT !.pc = "done", !.code = HTTP_503_SERVICE_UNAVAILABLE,
                     !.status = "error"]]
    /\ UNCHANGED <<lifecycle, supervisor, queues, stats, dedup, clocks,
                   arrivals, health, disk, accepted, apart>>

\* a coroutine of the process other than dedup_check takes app._dedup_lock
\* and keeps it across an await
LockAcquire ==
    /\ dedup_lock = "free"
    /\ dedup_lock' = "held"
    /\ UNCHANGED <<lifecycle, supervisor, queues, stats, last_translation,
                   last_translation_time, last_mono, clocks, ingress, disk,
                   accepted, apart>>

LockRelease ==
    /\ dedup_lock = "held"
    /\ dedup_lock' = "free"
    /\ UNCHANGED <<lifecycle, supervisor, queues, stats, last_translation,
                   last_translation_time, last_mono, clocks, ingress, disk,
                   accepted, apart>>

\* the rest of the handler: "skipped", or enqueue_translation and "queued"
Respond(h) ==
    /\ h \in DOMAIN requests
    /\ requests[h].pc = "decided"
    /\ IF requests[h].is_duplicate
       THEN /\ requests' = [requests EXCEPT ![h] =
                   [@ EXCEPT !.pc = "done", !.code = response_status_code,
                             !.status = "skipped", !.queue_position = 0]]
            /\ UNCHANGED <<translation_queue, accepted>>
       ELSE LET request_id == Len(accepted) + 1 IN
            /\ translation_queue' =
                   enqueue_translation(requests[h].text, request_id,
                                       requests[h].return_audio)
            /\ accepted' = Append(accepted,
                   [text |-> requests[h].text,
                    return_audio |-> requests[h].return_audio])
            /\ requests' = [requests EXCEPT ![h] =
                   [@ EXCEPT !.pc = "done", !.code = response_status_code,
                             !.status = "queued",
                             !.queue_position = Len(translation_queue'),
                             !.request_id = request_id,
                             !.size_before_put = Len(translation_queue)]]
    /\ UNCHANGED <<lifecycle, supervisor, tts_queue, audio_play_queue, stats,
                   dedup, clocks, arrivals, health, disk, apart>>

\* the response is sent; the handler is gone
Close(h) ==
    /\ h \in DOMAIN requests
    /\ requests[h].pc = "done"
    /\ requests' = remove(requests, h)
    /\ UNCHANGED <<lifecycle, supervisor, queues, stats, dedup, clocks,
                   arrivals, health, disk, accepted, apart>>

(***************************************************************************)
(* GET /health (server/app.py).                                            *)
(***************************************************************************)
\* dict.get(key, {}) on TranslationTTSWorkerSystem.stats
stats_get(key) == IF key \in DOMAIN stats THEN stats[key] ELSE <<>>

\* the HealthResponse the handler returns, or the HTTPException it raises
health_check ==
    IF ~initialized
    THEN [code |-> HTTP_503_SERVICE_UNAVAILABLE]
    ELSE [code |-> HTTP_200_OK, status |-> "ok",
          translation_queue_size |-> Len(translation_queue),
          tts_queue_size |-> Len(tts_queue),
          translation_stats |-> stats_get("translation"),
          tts_stats |-> stats_get("tts")]

\* a GET /health request is answered
Health ==
    /\ health' = health_check
    /\ UNCHANGED <<lifecycle, supervisor, queues, stats, dedup, clocks,
                   requests, arrivals, disk, accepted, apart>>

(***************************************************************************)
(* The worker tasks (server/core/translation_tts_worker.py).               *)
(***************************************************************************)
task(stage, gen) == tasks[<<stage, gen>>]

\* a worker that ends after one job
worker_ends == DoneTask

\* `while self._running` at the end of an iteration
next_iteration == IF running THEN NewTask ELSE DoneTask

\* a counter that counts every job twice
count_twice(key) == [stats EXCEPT ![key] = @ + 2]

\* a counter that runs backwards
count_down(key) == [stats EXCEPT ![key] = @ - 1]

count(key) == [stats EXCEPT ![key] = @ + 1]

\* asyncio.wait_for(queue.get(), timeout=1.0) returns a request
TranslationGet(gen) ==
    /\ task("translation", gen).pc = "get"
    /\ ~task("translation", gen).cancelled
    /\ translation_queue # <<>>
    /\ tasks' = [tasks EXCEPT ![<<"translation", gen>>] =
                    [@ EXCEPT !.pc = "got", !.req = Head(translation_queue)]]
    /\ translation_queue' = Tail(translation_queue)
    /\ UNCHANGED <<lifecycle, running, generation, stopping, tts_semaphore,
                   tts_queue, audio_play_queue, stats, dedup, clocks, ingress,
                   disk, accepted, apart>>

TTSGet(gen) ==
    /\ task("tts", gen).pc = "get"
    /\ ~task("tts", gen).cancelled
    /\ tts_queue # <<>>
    /\ tasks' = [tasks EXCEPT ![<<"tts", gen>>] =
                    [@ EXCEPT !.pc = "got", !.req = Head(tts_queue)]]
    /\ tts_queue' = Tail(tts_queue)
    /\ UNCHANGED <<lifecycle, running, generation, stopping, tts_semaphore,
                   translation_queue, audio_play_queue, stats, dedup, clocks,
                   ingress, disk, accepted, apart>>

AudioPlayGet(gen) ==
    /\ task("audio_play", gen).pc = "get"
    /\ ~task("audio_play", gen).cancelled
    /\ audio_play_queue # <<>>
    /\ tasks' = [tasks EXCEPT ![<<"audio_play", gen>>] =
                    [@ EXCEPT !.pc = "got", !.req = Head(audio_play_queue)]]
    /\ audio_play_queue' = Tail(audio_play_queue)
    /\ UNCHANGED <<lifecycle, running, generation, stopping, tts_semaphore,
                   translation_queue, tts_queue, stats, dedup, clocks, ingress,
                   disk, accepted, apart>>

queue_of(stage) ==
    CASE stage = "translation" -> translation_queue
      [] stage = "tts" -> tts_queue
      [] stage = "audio_play" -> audio_play_queue

\* asyncio.TimeoutError on an empty queue, `continue`, and _running is False
PollTimeout(stage, gen) ==
    /\ task(stage, gen).pc = "get"
    /\ ~task(stage, gen).cancelled
    /\ queue_of(stage) = <<>>
    /\ ~running
    /\ tasks' = [tasks EXCEPT ![<<stage, gen>>] = DoneTask]
    /\ UNCHANGED <<lifecycle, running, generation, stopping, tts_semaphore,
                   queues, stats, dedup, clocks, ingress, disk, accepted, apart>>

\* _tts_semaphore after `async with` is left by a task at pc
released(pc) ==
    IF pc \in {"call", "sleep"} THEN tts_semaphore + 1 ELSE tts_semaphore

\* CancelledError reaches a task at the await it is suspended in: the finally
\* clauses run (task_done, the semaphore's __aexit__) and the task ends.  The
\* player subprocess of _play_audio is not terminated.
Cancelled(stage, gen) ==
    /\ task(stage, gen).cancelled
    /\ task(stage, gen).pc \in {"get", "call", "sem", "sleep"}
    /\ tasks' = [tasks EXCEPT ![<<stage, gen>>] = DoneTask]
    /\ tts_semaphore' = IF stage = "tts" THEN released(task(stage, gen).pc)
                        ELSE tts_semaphore
    /\ UNCHANGED <<lifecycle, running, generation, stopping, queues, stats,
                   dedup, clocks, ingress, disk, accepted, apart>>

\* the TTSRequest the translation worker builds
TTSRequest(japanese_text, req, translated) ==
    [japanese_text |-> japanese_text, request_id |-> req.request_id,
     return_audio |-> req.return_audio,
     \* history, for the properties: the text of the TranslationRequest and
     \* whether translate_to_japanese was called for it
     source_text |-> req.text, translated |-> translated]

\* the worker resumes with its request (a cancellation that arrives while
\* wait_for holds the result is swallowed by wait_for on Python <= 3.11):
\* pre-translated text goes to the TTS queue, other text to the translator
TranslationProcess(gen) ==
    /\ task("translation", gen).pc = "got"
    /\ LET req == task("translation", gen).req IN
       IF pre_translated(req.text)
       THEN /\ tts_queue' = Append(tts_queue, TTSRequest(req.text, req, FALSE))
            /\ stats' = count("translation_processed")
            /\ tasks' = [tasks EXCEPT ![<<"translation", gen>>] = next_iteration]
       ELSE IF translate_to_japanese(req.text, ClientError).kind = "ValueError"
       THEN /\ stats' = count("translation_failed")
            /\ tasks' = [tasks EXCEPT ![<<"translation", gen>>] = next_iteration]
            /\ UNCHANGED tts_queue
       ELSE /\ tasks' = [tasks EXCEPT ![<<"translation", gen>>] =
                            [@ EXCEPT !.pc = "call", !.cancelled = FALSE]]
            /\ UNCHANGED <<tts_queue, stats>>
    /\ UNCHANGED <<lifecycle, running, generation, stopping, tts_semaphore,
                   translation_queue, audio_play_queue, dedup, clocks, ingress,
                   disk, accepted, apart>>

\* `await translate_to_japanese(req.text)` returns or raises
TranslationReturn(gen, reply) ==
    /\ task("translation", gen).pc = "call"
    /\ ~task("translation", gen).cancelled
    /\ LET req == task("translation", gen).req
           result == translate_to_japanese(req.text, reply)
       IN  IF result.kind = "ok"
           THEN /\ tts_queue' = Append(tts_queue, TTSRequest(result.text, req, TRUE))
                /\ stats' = count("translation_processed")
           ELSE /\ stats' = count("translation_failed")
                /\ UNCHANGED tts_queue
    /\ tasks' = [tasks EXCEPT ![<<"translation", gen>>] = next_iteration]
    /\ UNCHANGED <<lifecycle, running, generation, stopping, tts_semaphore,
                   translation_queue, audio_play_queue, dedup, clocks, ingress,
                   disk, accepted, apart>>

\* an engine that writes every clip to the same file
audio_path_shared(request_id) == <<"audio/tmp", "tts_", 0, ".wav">>

\* VoicevoxEngine.synthesize_to_file: output_dir / f"tts_{request_id}.wav"
audio_path(request_id) == <<"audio/tmp", "tts_", request_id, ".wav">>

\* a semaphore that lets every caller in
semaphore_unlimited == TRUE

\* Semaphore.acquire() returns without waiting
semaphore_free == tts_semaphore > 0

\* the AudioPlayRequest the TTS worker builds
AudioPlayRequest(path, req) ==
    [audio_path |-> path, request_id |-> req.request_id,
     delete_after_play |-> TRUE,
     \* history, for the properties: the flag of the TTSRequest
     return_audio |-> req.return_audio]

\* a TTS worker that hands every file to the player
play_always(req) == TRUE

\* `if not req.return_audio`: the file goes to the audio play worker
play_after_synthesis(req) == ~req.return_audio

\* the synthesis calls in flight: tasks inside synthesize_to_file
in_synthesis == {t \in DOMAIN tasks : t[1] = "tts" /\ tasks[t].pc = "call"}

\* inside `async with self._tts_semaphore`: synthesize_to_file is called;
\* VoicevoxEngine.synthesize raises ValueError for blank text before any await
enter_synthesis(gen) ==
    LET req == task("tts", gen).req IN
    IF strip(req.japanese_text) = <<>>
    THEN /\ stats' = count("tts_failed")
         /\ tasks' = [tasks EXCEPT ![<<"tts", gen>>] = next_iteration]
         /\ UNCHANGED tts_semaphore
    ELSE /\ tasks' = [tasks EXCEPT ![<<"tts", gen>>] =
                         [@ EXCEPT !.pc = "call", !.cancelled = FALSE]]
         /\ tts_semaphore' = tts_semaphore - 1
         /\ UNCHANGED stats

\* the worker resumes with its request and reaches the semaphore
TTSProcess(gen) ==
    /\ task("tts", gen).pc = "got"
    /\ IF semaphore_free
       THEN enter_synthesis(gen)
       ELSE /\ tasks' = [tasks EXCEPT ![<<"tts", gen>>] =
                            [@ EXCEPT !.pc = "sem", !.cancelled = FALSE]]
            /\ UNCHANGED <<tts_semaphore, stats>>
    /\ UNCHANGED <<lifecycle, running, generation, stopping, queues, dedup,
                   clocks, ingress, disk, accepted, apart>>

\* a task waiting for the semaphore gets it
TTSAcquire(gen) ==
    /\ task("tts", gen).pc = "sem"
    /\ ~task("tts", gen).cancelled
    /\ semaphore_free
    /\ enter_synthesis(gen)
    /\ UNCHANGED <<lifecycle, running, generation, stopping, queues, dedup,
                   clocks, ingress, disk, accepted, apart>>

\* `await self.tts_engine.synthesize_to_file(...)` returns the path of the
\* file it wrote, or raises (asyncio.TimeoutError, any other exception)
TTSReturn(gen, outcome) ==
    /\ task("tts", gen).pc = "call"
    /\ ~task("tts", gen).cancelled
    /\ LET req == task("tts", gen).req
           path == audio_path(req.request_id)
       IN  IF outcome = "ok"
           THEN /\ files' = files \cup {path}
                /\ audio_play_queue' =
                       IF play_after_synthesis(req)
                       THEN Append(audio_play_queue, AudioPlayRequest(path, req))
                       ELSE audio_play_queue
                /\ stats' = count("tts_processed")
                /\ tasks' = [tasks EXCEPT ![<<"tts", gen>>] =
                                [@ EXCEPT !.pc = "sleep"]]
                /\ UNCHANGED tts_semaphore
           ELSE /\ stats' = count("tts_failed")
                /\ tasks' = [tasks EXCEPT ![<<"tts", gen>>] = next_iteration]
                /\ tts_semaphore' = released("call")
                /\ UNCHANGED <<files, audio_play_queue>>
    /\ UNCHANGED <<lifecycle, running, generation, stopping, translation_queue,
                   tts_queue, dedup, clocks, ingress, players, accepted, apart>>

\* `await asyncio.sleep(0.1)` returns; finally: task_done; the semaphore is
\* released
TTSWake(gen) ==
    /\ task("tts", gen).pc = "sleep"
    /\ ~task("tts", gen).cancelled
    /\ tasks' = [tasks EXCEPT ![<<"tts", gen>>] = next_iteration]
    /\ tts_semaphore' = released("sleep")
    /\ UNCHANGED <<lifecycle, running, generation, stopping, queues, stats,
                   dedup, clocks, ingress, disk, accepted, apart>>

\* the worker resumes with its request: _play_audio spawns the player, or
\* create_subprocess_exec raises
AudioPlayProcess(gen, spawned) ==
    /\ task("audio_play", gen).pc = "got"
    /\ LET req == task("audio_play", gen).req IN
       IF spawned
       THEN /\ players' = players \cup {req.request_id}
            /\ tasks' = [tasks EXCEPT ![<<"audio_play", gen>>] =
                            [@ EXCEPT !.pc = "call", !.cancelled = FALSE]]
            /\ UNCHANGED stats
       ELSE /\ stats' = count("audio_play_failed")
            /\ tasks' = [tasks EXCEPT ![<<"audio_play", gen>>] = next_iteration]
            /\ UNCHANGED players
    /\ UNCHANGED <<lifecycle, running, generation, stopping, tts_semaphore,
                   queues, dedup, clocks, ingress, files, accepted, apart>>

\* `await process.wait()` returns; the file is unlinked if it exists (an
\* exception of unlink is logged), audio_play_processed is counted
AudioPlayReturn(gen, unlinked) ==
    /\ task("audio_play", gen).pc = "call"
    /\ ~task("audio_play", gen).cancelled
    /\ LET req == task("audio_play", gen).req IN
       /\ players' = players \ {req.request_id}
       /\ files' = IF req.delete_after_play /\ unlinked
                   THEN files \ {req.audio_path}
                   ELSE files
    /\ stats' = count("audio_play_processed")
    /\ tasks' = [tasks EXCEPT ![<<"audio_play", gen>>] = next_iteration]
    /\ UNCHANGED <<lifecycle, running, generation, stopping, tts_semaphore,
                   queues, dedup, clocks, ingress, accepted, apart>>

\* a player whose worker was cancelled plays to the end
PlayerExit(id) ==
    /\ id \in players
    /\ \A t \in DOMAIN tasks :
           ~(t[1] = "audio_play" /\ tasks[t].pc = "call"
             /\ tasks[t].req.request_id = id)
    /\ players' = players \ {id}
    /\ UNCHANGED <<lifecycle, supervisor, queues, stats, dedup, clocks,
                   ingress, files, accepted, apart>>

(***************************************************************************)
(* postprocess_for_tts under test: a text, and the results of applying     *)
(* the normalizer to it and then to its own output.                        *)
(***************************************************************************)
Normalizing(text) == [text |-> text, results |-> <<>>]

\* postprocess_for_tts(text), then postprocess_for_tts of the result
Normalize ==
    /\ Len(normalizer.results) < 2
    /\ normalizer' = [normalizer EXCEPT !.results =
           Append(@, postprocess_for_tts(IF @ = <<>> THEN normalizer.text
                                         ELSE @[Len(@)]))]
    /\ UNCHANGED <<server, think_aloud>>

(***************************************************************************)
(* The think-aloud hook (hook/think_aloud_hook.py).  A transcript is the   *)
(* sequence of the non-blank lines of the JSONL file; a line is            *)
(*   "garbage"  text json.loads rejects,                                   *)
(*   "other"    a JSON object without a message.content list,              *)
(*   "record"   a JSON object whose message.content is the list `content`  *)
(*              of blocks [type, thinking].                                *)
(***************************************************************************)
Garbage == [kind |-> "garbage", content |-> <<>>]
Other == [kind |-> "other", content |-> <<>>]
Record(content) == [kind |-> "record", content |-> content]
TextBlock == [type |-> "text", thinking |-> <<>>]
Thinking(text) == [type |-> "thinking", thinking |-> text]

\* the loop of extract_thinking_from_record: the first thinking block whose
\* text is a non-empty string, stripped
RECURSIVE first_thinking(_, _)
first_thinking(content, i) ==
    IF i > Len(content) THEN NoText
    ELSE IF content[i].type = "thinking" /\ content[i].thinking # <<>>
    THEN strip(content[i].thinking)
    ELSE first_thinking(content, i + 1)

extract_thinking_from_record(record) ==
    IF record.kind = "record" THEN first_thinking(record.content, 1) ELSE NoText

\* `if thinking:` in get_last_thinking and in main
truthy(thinking) == thinking # NoText /\ thinking # <<>>

\* the loop of get_last_thinking over the lines from position i on
RECURSIVE scan_transcript(_, _, _)
scan_transcript(lines, i, last_thinking) ==
    IF i > Len(lines) THEN last_thinking
    ELSE IF lines[i].kind = "garbage"
    THEN scan_transcript(lines, i + 1, last_thinking)
    ELSE LET thinking == extract_thinking_from_record(lines[i]) IN
         scan_transcript(lines, i + 1,
                         IF truthy(thinking) THEN thinking ELSE last_thinking)

\* a parser that keeps the first thinking it finds
get_first_thinking(lines) ==
    LET found == {i \in DOMAIN lines :
                     /\ lines[i].kind # "garbage"
                     /\ truthy(extract_thinking_from_record(lines[i]))}
    IN  IF found = {} THEN NoText
        ELSE extract_thinking_from_record(
                 lines[CHOOSE i \in found : \A j \in found : i <= j])

get_last_thinking(lines) == scan_transcript(lines, 1, NoText)

\* what get_last_thinking writes to stderr: one message per rejected line
parse_errors(lines) ==
    [i \in 1..Cardinality({j \in DOMAIN lines : lines[j].kind = "garbage"})
        |-> "Failed to parse transcript line"]

\* hashlib.md5(...).hexdigest(): a string without whitespace, different for
\* different texts of the model
hex(c) == CASE c = " " -> "20" [] c = "\n" -> "0a" [] OTHER -> c
compute_hash(text) == <<"md5">> \o [i \in 1..Len(text) |-> hex(text[i])]

NoFile == <<"<no file>">>

\* read_last_hash: the stripped content of the state file, None when the
\* file does not exist or cannot be read
read_last_hash(readable) ==
    IF state_file = NoFile \/ ~readable THEN NoText ELSE strip(state_file)

\* a writer that leaves the state file as it was
write_last_hash_never(hash_value, writable) == state_file

\* write_last_hash: the content of the state file afterwards
write_last_hash(hash_value, writable) ==
    IF writable THEN hash_value ELSE state_file

NoRun == [pc |-> "none", thinking |-> NoText, current_hash |-> NoText,
          stderr |-> <<>>, called |-> FALSE, success |-> FALSE,
          wrote |-> FALSE, exit_code |-> -1,
          \* history, for the properties: the digest read_last_hash returned
          last_hash |-> NoText]

\* call_translation_tts_api: what it logs and returns for an outcome of
\* urlopen
ApiOutcomes == {"202", "other status", "HTTPError", "URLError"}

api_errors(outcome) ==
    CASE outcome = "202" -> <<>>
      [] outcome = "other status" -> <<"Unexpected status code", "Response">>
      [] outcome = "HTTPError" -> <<"HTTP error", "Response">>
      [] outcome = "URLError" -> <<"URL error">>

\* main() up to the API call: the transcript is read, the digest of the last
\* thinking is compared with the stored one
HookStart(readable) ==
    /\ hook.pc \in {"none", "exited"}
    /\ LET thinking == get_last_thinking(transcript)
           current_hash == compute_hash(thinking)
           last_hash == read_last_hash(readable)
           errors == parse_errors(transcript)
       IN  IF ~truthy(thinking)
           THEN hook' = [NoRun EXCEPT !.pc = "exited", !.thinking = thinking,
                                      !.stderr = errors, !.exit_code = 0]
           ELSE LET read_errors ==
                        IF state_file # NoFile /\ ~readable
                        THEN <<"Failed to read state file">> ELSE <<>>
                    run == [NoRun EXCEPT !.thinking = thinking,
                                         !.current_hash = current_hash,
                                         !.last_hash = last_hash,
                                         !.stderr = errors \o read_errors]
                IN  IF current_hash = last_hash
                    THEN hook' = [run EXCEPT !.pc = "exited", !.exit_code = 0]
                    ELSE hook' = [run EXCEPT !.pc = "calling", !.called = TRUE]
    /\ UNCHANGED <<server, normalizer, transcript, state_file>>

\* urlopen returns or raises; write_last_hash(current_hash); sys.exit
HookReturn(outcome, writable) ==
    /\ hook.pc = "calling"
    /\ LET success == outcome = "202"
           write_errors == IF writable THEN <<>>
                           ELSE <<"Failed to write state file">>
       IN  /\ state_file' = write_last_hash(hook.current_hash, writable)
           /\ hook' = [hook EXCEPT
                  !.pc = "exited", !.success = success, !.wrote = writable,
                  !.stderr = @ \o api_errors(outcome) \o write_errors,
                  !.exit_code = IF success THEN 0 ELSE 1]
    /\ UNCHANGED <<server, normalizer, transcript>>

\* the session the hook belongs to appends a line to the transcript
TranscriptAppend(line) ==
    /\ Len(transcript) < MaxLines
    /\ transcript' = Append(transcript, line)
    /\ UNCHANGED <<server, normalizer, state_file, hook>>

\* nothing outside the server process is running
ApartInit ==
    /\ normalizer = Normalizing(<<>>)
    /\ transcript = <<>>
    /\ state_file = NoFile
    /\ hook = NoRun

Init == ServerInit /\ ApartInit

(***************************************************************************)
(* Specifications.                                                         *)
(***************************************************************************)
Generations == 1..MaxStarts
Times == 0..MaxTime

\* what the model's translator answers
ModelReplies == {<<"jp_a">>, <<"3", ".", "2">>, ClientError}
SynthesisOutcomes == {"ok", "TimeoutError", "ClientError"}

\* the handler steps of the requests that have arrived
HandlerStep ==
    \/ \E h \in 1..MaxRequests : DedupCheck(h)
    \/ \E h \in 1..MaxRequests : Respond(h)
    \/ \E h \in 1..MaxRequests : Close(h)

TranslationStep ==
    \/ \E gen \in Generations : TranslationGet(gen)
    \/ \E gen \in Generations : TranslationProcess(gen)
    \/ \E gen \in Generations, reply \in ModelReplies :
           TranslationReturn(gen, reply)

\* a response is sent as soon as the handler has returned it
Sent == \A h \in DOMAIN requests : requests[h].pc # "done"

\* The deduplicator: requests with two texts under a clock that advances and
\* can be set.
DedupTexts == {<<"a">>, <<"b">>}

NextDedup ==
    \/ \E h \in 1..MaxRequests : Close(h)
    \/ Sent /\ \E healthy \in BOOLEAN : Startup(healthy)
    \/ Sent /\ \E text \in DedupTexts : Arrive(text, FALSE)
    \/ Sent /\ \E h \in 1..MaxRequests : DedupCheck(h)
    \/ Sent /\ \E h \in 1..MaxRequests : Respond(h)
    \/ Sent /\ Tick
    \/ Sent /\ \E t \in Times : ClockSet(t)

SpecDedup == Init /\ [][NextDedup]_vars

\* Task.cancel() makes the task runnable: it handles CancelledError in the
\* next pass of the event loop, before a coroutine that waits for I/O, a
\* timer or a task created later
cancellation_pending ==
    \E t \in DOMAIN tasks :
        tasks[t].cancelled /\ tasks[t].pc \in {"get", "call", "sem", "sleep"}

\* gather() is done once the last cancelled task has ended: stop() is runnable
return_pending == \E call \in stopping : workers_ended(call.gen)

\* responses are sent and cancellations are delivered first
Quiet == Sent /\ ~cancellation_pending /\ ~return_pending

\* The ingress: every kind of request body, before startup, while running
\* and during shutdown, with the translation worker consuming the queue.
IngressTexts == {Missing, <<>>, <<" ">>, <<"a">>, <<OpenMark, "jp_a", CloseMark>>}

NextIngress ==
    \/ \E h \in 1..MaxRequests : Close(h)
    \/ \E stage \in Stages, gen \in Generations : Cancelled(stage, gen)
    \/ Quiet /\ \E healthy \in BOOLEAN : Startup(healthy)
    \/ Quiet /\ Shutdown
    \/ Quiet /\ Cleanup
    \/ Sent /\ \E call \in stopping : StopReturn(call)
    \/ Quiet /\ \E text \in IngressTexts, return_audio \in BOOLEAN :
           Arrive(text, return_audio)
    \/ Quiet /\ \E h \in 1..MaxRequests : DedupCheck(h)
    \/ Quiet /\ \E h \in 1..MaxRequests : Respond(h)
    \/ Quiet /\ TranslationStep

SpecIngress == Init /\ [][NextIngress]_vars

\* a handler runs to its response without preemption (wait_for runs
\* dedup_check inline, as on Python >= 3.12)
NoHandler == requests = <<>>

Calm == NoHandler /\ ~cancellation_pending /\ ~return_pending

TTSStep ==
    \/ \E gen \in Generations : TTSGet(gen)
    \/ \E gen \in Generations : TTSProcess(gen)
    \/ \E gen \in Generations, outcome \in SynthesisOutcomes :
           TTSReturn(gen, outcome)
    \/ \E gen \in Generations : TTSWake(gen)

AudioPlayStep ==
    \/ \E gen \in Generations : AudioPlayGet(gen)
    \/ \E gen \in Generations, spawned \in BOOLEAN :
           AudioPlayProcess(gen, spawned)
    \/ \E gen \in Generations, unlinked \in BOOLEAN :
           AudioPlayReturn(gen, unlinked)

\* the audio play worker with an unlink that succeeds
AudioPlayRuns ==
    \/ \E gen \in Generations : AudioPlayGet(gen)
    \/ \E gen \in Generations, spawned \in BOOLEAN :
           AudioPlayProcess(gen, spawned)
    \/ \E gen \in Generations : AudioPlayReturn(gen, TRUE)

\* The pipeline: a started system carrying requests of both kinds through the
\* three workers.
PipelineTexts == {<<"a">>, <<OpenMark, "jp_a", CloseMark>>}

NextPipeline ==
    \/ HandlerStep
    \/ NoHandler /\ Startup(TRUE)
    \/ NoHandler /\ \E text \in PipelineTexts, return_audio \in BOOLEAN :
           Arrive(text, return_audio)
    \/ NoHandler /\ TranslationStep
    \/ NoHandler /\ TTSStep
    \/ NoHandler /\ AudioPlayStep

SpecPipeline == Init /\ [][NextPipeline]_vars

\* The translation stage with a model that also answers with nothing but an
\* explanation, with an empty content, or with a lone period.
EmptyReplies == {EXPLANATION \o <<" ", "a">>, <<>>, <<".">>}

NextTranslation ==
    \/ HandlerStep
    \/ NoHandler /\ Startup(TRUE)
    \/ NoHandler /\ \E text \in PipelineTexts, return_audio \in BOOLEAN :
           Arrive(text, return_audio)
    \/ NoHandler /\ \E gen \in Generations : TranslationGet(gen)
    \/ NoHandler /\ \E gen \in Generations : TranslationProcess(gen)
    \/ NoHandler /\ \E gen \in Generations :
           \E reply \in ModelReplies \cup EmptyReplies :
               TranslationReturn(gen, reply)
    \/ NoHandler /\ TTSStep

SpecTranslation == Init /\ [][NextTranslation]_vars

\* The pipeline under the scheduling of the event loop, with collaborators
\* that always return: the translator, the TTS engine and the player answer
\* or fail, and the unlink of a played file succeeds.
NextLive ==
    \/ HandlerStep
    \/ NoHandler /\ Startup(TRUE)
    \/ NoHandler /\ \E text \in PipelineTexts, return_audio \in BOOLEAN :
           Arrive(text, return_audio)
    \/ NoHandler /\ TranslationStep
    \/ NoHandler /\ TTSStep
    \/ NoHandler /\ AudioPlayRuns

\* A worker that can run runs and a call in flight returns.  A translator
\* call can return whenever it can fail, so the fairness of its failing
\* return is the fairness of its return: any answer ends the call.
FairWorkers ==
    /\ WF_vars(HandlerStep)
    /\ WF_vars(NoHandler /\ \E gen \in Generations : TranslationGet(gen))
    /\ WF_vars(NoHandler /\ \E gen \in Generations : TranslationProcess(gen))
    /\ WF_vars(NoHandler /\ \E gen \in Generations :
                   TranslationReturn(gen, ClientError))
    /\ WF_vars(NoHandler /\ TTSStep)
    /\ WF_vars(NoHandler /\ AudioPlayRuns)

SpecLive == Init /\ [][NextLive]_vars /\ FairWorkers

\* A stream of requests to a started server, one after the other, under a
\* clock that only moves forward.
NextStream ==
    \/ Startup(TRUE)
    \/ NoHandler /\ initialized /\ \E text \in DedupTexts :
           arrival(text, FALSE, MaxStream)
    \/ DedupCheck(1)
    \/ Respond(1)
    \/ Close(1)
    \/ NoHandler /\ Tick

SpecStream == Init /\ [][NextStream]_vars

\* The synthesis stage under start() and stop(): requests that ask for the
\* file only (nothing reaches audio_play_queue), with the workers of a
\* stopped generation still holding jobs while the next generation runs.
NextSynthesis ==
    \/ HandlerStep
    \/ \E stage \in Stages, gen \in Generations : Cancelled(stage, gen)
    \/ Calm /\ Startup(TRUE)
    \/ Calm /\ Start
    \/ Calm /\ Stop
    \/ NoHandler /\ \E call \in stopping : StopReturn(call)
    \/ Calm /\ \E call \in stopping : StopTimeout(call)
    \/ Calm /\ \E text \in PipelineTexts : Arrive(text, TRUE)
    \/ Calm /\ TranslationStep
    \/ Calm /\ TTSStep
    \/ Calm /\ \E gen \in Generations : TTSAcquire(gen)
    \/ Calm /\ \E stage \in Stages, gen \in Generations : PollTimeout(stage, gen)

SpecSynthesis == Init /\ [][NextSynthesis]_vars

\* The shutdown of a healthy system: the three workers carry requests until
\* lifespan leaves `yield`; the player starts and the file can be unlinked.
NextShutdown ==
    \/ HandlerStep
    \/ \E stage \in Stages, gen \in Generations : Cancelled(stage, gen)
    \/ Calm /\ Startup(TRUE)
    \/ Calm /\ Shutdown
    \/ NoHandler /\ \E call \in stopping : StopReturn(call)
    \/ Calm /\ \E call \in stopping : StopTimeout(call)
    \/ Calm /\ Cleanup
    \/ Calm /\ \E text \in PipelineTexts, return_audio \in BOOLEAN :
           Arrive(text, return_audio)
    \/ Calm /\ TranslationStep
    \/ Calm /\ TTSStep
    \/ Calm /\ \E gen \in Generations : AudioPlayGet(gen)
    \/ Calm /\ \E gen \in Generations : AudioPlayProcess(gen, TRUE)
    \/ Calm /\ \E gen \in Generations : AudioPlayReturn(gen, TRUE)
    \/ Calm /\ \E id \in 1..MaxRequests : PlayerExit(id)

SpecShutdown == Init /\ [][NextShutdown]_vars

\* The shutdown under the scheduling of the event loop: a handler or a
\* worker that can run runs, a cancellation is delivered, the timers of
\* asyncio.sleep and wait_for fire, and stop() resumes once its gather is
\* done.  Nothing makes a call of the translator, the TTS engine or the
\* player return.
FairShutdown ==
    /\ WF_vars(HandlerStep)
    /\ WF_vars(Calm /\ \E gen \in Generations : TranslationProcess(gen))
    /\ WF_vars(Calm /\ \E gen \in Generations : TTSProcess(gen))
    /\ WF_vars(Calm /\ \E gen \in Generations : TTSWake(gen))
    /\ WF_vars(Calm /\ \E gen \in Generations : AudioPlayProcess(gen, TRUE))
    /\ WF_vars(\E stage \in Stages, gen \in Generations : Cancelled(stage, gen))
    /\ WF_vars(NoHandler /\ \E call \in stopping : StopReturn(call))
    /\ WF_vars(Calm /\ \E call \in stopping : StopTimeout(call))

SpecStop == SpecShutdown /\ FairShutdown

\* The whole pipeline under start() and stop(): requests that are played,
\* with the workers and the players of a stopped generation still alive
\* while the next generation runs.
NextRestart ==
    \/ HandlerStep
    \/ \E stage \in Stages, gen \in Generations : Cancelled(stage, gen)
    \/ Calm /\ Startup(TRUE)
    \/ Calm /\ Start
    \/ Calm /\ Stop
    \/ NoHandler /\ \E call \in stopping : StopReturn(call)
    \/ Calm /\ \E call \in stopping : StopTimeout(call)
    \/ Calm /\ \E text \in PipelineTexts : Arrive(text, FALSE)
    \/ Calm /\ TranslationStep
    \/ Calm /\ TTSStep
    \/ Calm /\ \E gen \in Generations : TTSAcquire(gen)
    \/ Calm /\ AudioPlayStep
    \/ Calm /\ \E id \in 1..MaxRequests : PlayerExit(id)
    \/ Calm /\ \E stage \in Stages, gen \in Generations : PollTimeout(stage, gen)

SpecRestart == Init /\ [][NextRestart]_vars

\* the sequences over S of length at most n
BoundedSeq(S, n) == UNION {[1..k -> S] : k \in 0..n}

\* The normalizer: every text of up to MaxLen characters over a digit, the
\* fraction slash, the period, a letter and the space is normalized twice.
NormalizerAlphabet == {"1", "/", ".", "a", " "}

NormalizerInit ==
    /\ ServerInit
    /\ normalizer \in {Normalizing(text) :
                          text \in BoundedSeq(NormalizerAlphabet, MaxLen)}
    /\ transcript = <<>>
    /\ state_file = NoFile
    /\ hook = NoRun

NextNormalizer == Normalize

SpecNormalizer == NormalizerInit /\ [][NextNormalizer]_vars

\* The transcript parser: the hook starts on every transcript of up to
\* MaxLines lines with up to MaxBlocks blocks in all.
ThinkingTexts == {<<>>, <<" ">>, <<"a", " ">>, <<"b">>}
Blocks == {TextBlock} \cup {Thinking(text) : text \in ThinkingTexts}

\* the lines with at most m blocks
LinesUpTo(m) ==
    {Garbage, Other} \cup {Record(content) : content \in BoundedSeq(Blocks, m)}

\* the transcripts of at most n lines with at most m blocks
RECURSIVE Transcripts(_, _)
Transcripts(n, m) ==
    IF n = 0 THEN {<<>>}
    ELSE {<<>>} \cup UNION {{<<line>> \o rest :
                                rest \in Transcripts(n - 1, m - Len(line.content))} :
                            line \in LinesUpTo(m)}

ExtractInit ==
    /\ ServerInit
    /\ normalizer = Normalizing(<<>>)
    /\ transcript \in Transcripts(MaxLines, MaxBlocks)
    /\ state_file = NoFile
    /\ hook = NoRun

NextExtract == HookStart(TRUE)

SpecExtract == ExtractInit /\ [][NextExtract]_vars

\* The hook run again and again while the transcript grows: the state file
\* may be unreadable or unwritable, and the API call may fail in every way.
HookLines == {Garbage, Record(<<Thinking(<<"a", " ">>)>>),
              Record(<<Thinking(<<"b">>)>>)}

NextHook ==
    \/ \E line \in HookLines : TranscriptAppend(line)
    \/ \E readable \in BOOLEAN : HookStart(readable)
    \/ \E outcome \in ApiOutcomes, writable \in BOOLEAN :
           HookReturn(outcome, writable)

SpecHook == Init /\ [][NextHook]_vars

\* The dedup lock: handlers of concurrent requests, each suspended between
\* its steps, while another coroutine can hold the lock.
NextLock ==
    \/ Startup(TRUE)
    \/ \E text \in DedupTexts : Arrive(text, FALSE)
    \/ \E h \in 1..MaxRequests : DedupCheck(h)
    \/ \E h \in 1..MaxRequests : DedupTimeout(h)
    \/ \E h \in 1..MaxRequests : Respond(h)
    \/ \E h \in 1..MaxRequests : Close(h)
    \/ LockAcquire
    \/ LockRelease
    \/ Tick

SpecLock == Init /\ [][NextLock]_vars

\* The health endpoint: polled before startup, after a failed startup and
\* while the pipeline carries requests.
NextHealth ==
    \/ HandlerStep
    \/ NoHandler /\ \E healthy \in BOOLEAN : Startup(healthy)
    \/ NoHandler /\ \E text \in PipelineTexts : Arrive(text, FALSE)
    \/ NoHandler /\ TranslationStep
    \/ NoHandler /\ TTSStep
    \/ NoHandler /\ \E gen \in Generations : AudioPlayGet(gen)
    \/ NoHandler /\ \E gen \in Generations : AudioPlayProcess(gen, TRUE)
    \/ NoHandler /\ \E gen \in Generations : AudioPlayReturn(gen, TRUE)
    \/ NoHandler /\ Health

SpecHealth == Init /\ [][NextHealth]_vars

(***************************************************************************)
(* Properties.                                                             *)
(***************************************************************************)
\* C1: in every reachable state, whatever start(), stop(), requests and
\* worker steps came before, at most one call of synthesize_to_file is in
\* flight.
SynthesisExclusive == Cardinality(in_synthesis) <= 1

\* one TTS worker is inside synthesize_to_file while the TTS worker of
\* another generation holds a job and waits for the semaphore
SynthesisContended ==
    \E t \in in_synthesis, gen \in Generations :
        /\ gen # t[2]
        /\ task("tts", gen).pc = "sem"

\* a handler whose dedup_check has returned
deduplicated(r) == r.pc = "decided" \/ (r.pc = "done" /\ r.status # "error")

\* C2: the deduplicator reports a duplicate if and only if the text equals
\* last_text and the monotonic time since last_time is at most 1.0 s.
DuplicateIffWithinMonotonicWindow ==
    \A h \in DOMAIN requests :
        deduplicated(requests[h]) =>
            (requests[h].is_duplicate <=>
                /\ requests[h].text = requests[h].seen_text
                /\ requests[h].elapsed # NoTime
                /\ requests[h].elapsed <= DEDUP_WINDOW)

\* C3: a request whose text differs from the text of the request before it
\* is answered "queued", whatever the time between the two.
DistinctTextsQueued ==
    \A h \in DOMAIN requests :
        (deduplicated(requests[h]) /\ requests[h].text # requests[h].seen_text) =>
            /\ ~requests[h].is_duplicate
            /\ requests[h].pc = "done" => requests[h].status = "queued"

\* the second request of a pair with different texts has been answered, no
\* time having passed since the first
DistinctPairAnswered ==
    \E h \in DOMAIN requests :
        /\ requests[h].pc = "done"
        /\ requests[h].status = "queued"
        /\ requests[h].seen_text \in DedupTexts \ {requests[h].text}
        /\ requests[h].elapsed = 0

\* a request the deduplicator reported as duplicate has been answered
answered_duplicate(r) == r.pc = "done" /\ r.is_duplicate

skipped_step(h) ==
    /\ h \in DOMAIN requests
    /\ Len(requests') = Len(requests)
    /\ requests'[h].pc # requests[h].pc
    /\ requests'[h].is_duplicate

\* C5: a request answered "skipped" changes nothing: the three queues, the
\* six counters, the dedup state and the number of jobs handed to the
\* pipeline are the same after each of its steps as before.
SkippedChangesNothing ==
    [][(\E h \in 1..MaxRequests : skipped_step(h)) =>
           UNCHANGED <<queues, stats, last_translation, last_translation_time,
                       accepted>>]_vars

\* the same text was submitted twice, the second time at the end of the
\* window: one job was handed to the pipeline and the second was "skipped"
SkippedWithinWindow ==
    \E h \in DOMAIN requests :
        /\ requests[h].pc = "done"
        /\ requests[h].status = "skipped"
        /\ requests[h].elapsed = DEDUP_WINDOW
        /\ Len(accepted) = 1
        /\ Len(translation_queue) = 1

\* an accepted request has been answered
answered_accepted(r) == r.pc = "done" /\ r.status = "queued"

\* the TranslationRequests of handler r on the T-queue
enqueued_by(r) ==
    {i \in DOMAIN translation_queue :
        translation_queue[i].request_id = r.request_id}

\* one TranslationRequest with the text and the flag of r is the last entry
\* of the T-queue, and r was answered 202 "queued" with the size of the queue
put_and_answered(r) ==
    /\ r.code = HTTP_202_ACCEPTED
    /\ enqueued_by(r) = {Len(translation_queue)}
    /\ translation_queue[Len(translation_queue)].text = r.text
    /\ translation_queue[Len(translation_queue)].return_audio = r.return_audio
    /\ r.queue_position = Len(translation_queue)

\* C6 as stated: an accepted request puts exactly one TranslationRequest with
\* its text and return_audio on the T-queue and is answered 202 "queued" with
\* queue_position the size of the T-queue right after the put; right after
\* the response the T-queue is one longer than before the dedup check.
AcceptedGrowsQueueSinceDedup ==
    \A h \in DOMAIN requests :
        answered_accepted(requests[h]) =>
            /\ put_and_answered(requests[h])
            /\ Len(translation_queue) = requests[h].size_on_entry + 1

\* C6: an accepted request puts exactly one TranslationRequest with its text
\* and return_audio on the T-queue and is answered 202 "queued" with
\* queue_position the size of the T-queue right after the put; right after
\* the response the T-queue is one longer than right before the put.
AcceptedGrowsQueueSincePut ==
    \A h \in DOMAIN requests :
        answered_accepted(requests[h]) =>
            /\ put_and_answered(requests[h])
            /\ Len(translation_queue) = requests[h].size_before_put + 1

\* an accepted request has been answered after the translation worker took
\* a job from the queue between the dedup check and the put
AcceptedAfterDequeue ==
    \E h \in DOMAIN requests :
        /\ answered_accepted(requests[h])
        /\ requests[h].size_on_entry = 1
        /\ requests[h].size_before_put = 0

blank(text) == text # Missing /\ strip(text) = <<>>

\* C7: a request whose text is empty after trimming is answered 422 (by a
\* server that is initialized: no other error applies), no TranslationRequest
\* on the T-queue has such a text, and the dedup state never holds such a
\* text.
BlankTextRejected ==
    /\ \A h \in DOMAIN requests :
           (requests[h].pc = "done" /\ blank(requests[h].text)
            /\ requests[h].was_running) =>
               requests[h].code = HTTP_422_UNPROCESSABLE
    /\ \A i \in DOMAIN translation_queue : ~blank(translation_queue[i].text)
    /\ ~blank(last_translation)

\* C8: a request with a valid body that arrives while the worker system is
\* not running (before startup has finished, after stop() has begun) is
\* answered 503 and puts nothing on the T-queue.
NotRunningAnswered503 ==
    \A h \in DOMAIN requests :
        (requests[h].pc = "done" /\ valid_request(requests[h].text)
         /\ ~requests[h].was_running) =>
            /\ requests[h].code = HTTP_503_SERVICE_UNAVAILABLE
            /\ enqueued_by(requests[h]) = {}

\* the text starts with the opening and ends with the closing corner bracket
marked(text) ==
    /\ text # <<>>
    /\ text[1] = OpenMark
    /\ text[Len(text)] = CloseMark

\* the TTSRequests on the S-queue or held by a TTS worker
tts_requests ==
    {tts_queue[i] : i \in DOMAIN tts_queue}
        \cup {tasks[t].req : t \in {u \in DOMAIN tasks :
                  u[1] = "tts" /\ tasks[u].pc \in {"got", "sem", "call", "sleep"}}}

\* C9: for an accepted text that starts with the opening and ends with the
\* closing corner bracket the translation worker calls neither the translator
\* nor the normalizer, and the TTSRequest it puts on the S-queue carries the
\* text of the request unchanged, under the request's request_id and with its
\* return_audio.
PreTranslatedPassedThrough ==
    /\ \A r \in tts_requests :
           marked(accepted[r.request_id].text) =>
               /\ r.japanese_text = accepted[r.request_id].text
               /\ r.return_audio = accepted[r.request_id].return_audio
               /\ ~r.translated
    /\ \A gen \in Generations :
           task("translation", gen).pc = "call" =>
               ~marked(task("translation", gen).req.text)

\* a pre-translated request that was accepted after another request is on
\* the S-queue
PreTranslatedOnTTSQueue ==
    \E i \in DOMAIN tts_queue :
        /\ marked(tts_queue[i].japanese_text)
        /\ tts_queue[i].request_id > 1
        /\ stats.translation_processed > 0

\* request_id is the id of an accepted job with return_audio = true
file_only(id) == id \in DOMAIN accepted /\ accepted[id].return_audio

\* C10: for a job with return_audio = true no AudioPlayRequest is ever on the
\* P-queue or held by the audio play worker and no player runs for it; the
\* step in which its synthesis succeeds counts tts_processed once and leaves
\* the P-queue alone, and the WAV file it wrote stays on disk.
FileOnlyJobKept ==
    [][\A id \in 1..MaxRequests :
           file_only(id) =>
               /\ id \notin players'
               /\ \A i \in DOMAIN audio_play_queue' :
                      audio_play_queue'[i].request_id # id
               /\ \A gen \in Generations :
                      tasks'[<<"audio_play", gen>>].req.request_id # id
               /\ audio_path(id) \in files => audio_path(id) \in files'
               /\ (audio_path(id) \notin files /\ audio_path(id) \in files') =>
                      /\ stats'.tts_processed = stats.tts_processed + 1
                      /\ audio_play_queue' = audio_play_queue]_vars

\* the file of a job with return_audio = true is on disk, the TTS worker is
\* back at its queue, and a job with return_audio = false has been played
FileOnlyJobDone ==
    \E id \in 1..MaxRequests :
        /\ file_only(id)
        /\ audio_path(id) \in files
        /\ \A gen \in Generations : task("tts", gen).pc \in {"none", "get"}
        /\ stats.audio_play_processed > 0

\* the audio play worker of generation gen ends its work on a request in
\* this step: audio_play_processed or audio_play_failed is counted
play_finished(gen) ==
    /\ task("audio_play", gen).pc \in {"got", "call"}
    /\ tasks'[<<"audio_play", gen>>] # task("audio_play", gen)
    /\ stats'.audio_play_processed + stats'.audio_play_failed
           > stats.audio_play_processed + stats.audio_play_failed

\* C11: when the audio play worker has finished an AudioPlayRequest with
\* delete_after_play = true (audio_play_processed or audio_play_failed was
\* counted for it), the WAV file does not exist, whatever the outcome of the
\* player.
PlayedFileDeleted ==
    [][\A gen \in Generations :
           (play_finished(gen) /\ task("audio_play", gen).req.delete_after_play) =>
               task("audio_play", gen).req.audio_path \notin files']_vars

\* lifespan has left its finally block and no worker task is alive
shutdown_complete ==
    /\ lifespan = "stopped"
    /\ \A t \in DOMAIN tasks : tasks[t].pc \in {"none", "done"}

\* C12: after shutdown has completed, a WAV file of a job with
\* return_audio = false is on disk only if an AudioPlayRequest for it still
\* waits in the P-queue: the file of a job the audio play worker had taken
\* (the one in its hands when it was cancelled included) has been deleted.
OnlyQueuedFilesLeft ==
    shutdown_complete =>
        \A id \in DOMAIN accepted :
            (~accepted[id].return_audio /\ audio_path(id) \in files) =>
                \E i \in DOMAIN audio_play_queue :
                    audio_play_queue[i].audio_path = audio_path(id)

failed_jobs ==
    stats.translation_failed + stats.tts_failed + stats.audio_play_failed

\* C13: the failure of a job at any stage (translation error, TTS timeout or
\* error, playback error) touches no other job and does not stop the worker:
\* the step that counts the failure leaves the three queues, the processed
\* counters, the files and the players as they were and changes no task but
\* the one of the failing worker, which goes back to its queue.
FailureIsolated ==
    [][failed_jobs' > failed_jobs =>
           /\ UNCHANGED <<queues, files, players>>
           /\ stats'.translation_processed = stats.translation_processed
           /\ stats'.tts_processed = stats.tts_processed
           /\ stats'.audio_play_processed = stats.audio_play_processed
           /\ failed_jobs' = failed_jobs + 1
           /\ \A t \in DOMAIN tasks :
                  \/ tasks'[t] = tasks[t]
                  \/ running /\ tasks'[t] = NewTask]_vars

\* the synthesis of the first of two accepted requests has failed and the
\* second, synthesized after it, is being played
SecondPlayedAfterFailure ==
    \E gen \in Generations :
        /\ task("audio_play", gen).pc = "call"
        /\ task("audio_play", gen).req.request_id = 2
        /\ stats.tts_failed = 1
        /\ stats.tts_processed = 1

\* if a counter of the stage changes in this step, a worker of the stage
\* takes the step and no worker of another stage does
counted_by(stage, keys) ==
    (\E k \in keys : stats'[k] # stats[k]) =>
        /\ \E gen \in Generations :
               tasks'[<<stage, gen>>] # tasks[<<stage, gen>>]
        /\ \A t \in DOMAIN tasks : t[1] # stage => tasks'[t] = tasks[t]

OnePlayerAlive == Cardinality(players) <= 1

\* a capacity below the number of requests that are sent
QueueCapacity == MaxRequests - 1

\* C16: each of the three queues is bounded: in every reachable state it
\* holds at most its capacity (a producer that finds it full waits).
QueuesBounded ==
    /\ Len(translation_queue) <= QueueCapacity
    /\ Len(tts_queue) <= QueueCapacity
    /\ Len(audio_play_queue) <= QueueCapacity

\* a step in which the queue of the stage goes from q to r is a put at the
\* tail, or a worker of the stage taking the job at the head
first_in_first_out(stage, q, r) ==
    \/ r = q
    \/ Len(r) = Len(q) + 1 /\ SubSeq(r, 1, Len(q)) = q
    \/ /\ q # <<>>
       /\ r = Tail(q)
       /\ \E gen \in Generations :
              /\ task(stage, gen).pc = "get"
              /\ tasks'[<<stage, gen>>].pc = "got"
              /\ tasks'[<<stage, gen>>].req = Head(q)

\* C17: each stage takes the jobs of its queue in the order in which they
\* were put on it: a job is put behind the jobs that wait, and the job a
\* worker starts is the one that has waited longest.
TakenInPutOrder ==
    [][/\ first_in_first_out("translation", translation_queue,
                             translation_queue')
       /\ first_in_first_out("tts", tts_queue, tts_queue')
       /\ first_in_first_out("audio_play", audio_play_queue,
                             audio_play_queue')]_vars

\* two jobs were put on the S-queue: the TTS worker holds the first while
\* the second waits
FirstTakenSecondWaits ==
    \E gen \in Generations :
        /\ task("tts", gen).pc = "call"
        /\ task("tts", gen).req.request_id = 1
        /\ Len(tts_queue) = 1
        /\ tts_queue[1].request_id = 2

\* the jobs the stage has finished, by the counters st
finished(st, stage) ==
    CASE stage = "translation" ->
             st.translation_processed + st.translation_failed
      [] stage = "tts" -> st.tts_processed + st.tts_failed
      [] stage = "audio_play" ->
             st.audio_play_processed + st.audio_play_failed

\* C18: on shutdown every worker finishes the job it holds: a worker lets go
\* of a job only with the processed or the failed counter of its stage
\* incremented; and no worker takes a job from its queue after stop() was
\* called.
HeldJobFinished ==
    [][\A t \in DOMAIN tasks :
           /\ (tasks[t].pc \in {"got", "sem", "call"}
               /\ tasks'[t].pc \in {"get", "done"}) =>
                  finished(stats', t[1]) = finished(stats, t[1]) + 1
           /\ (tasks[t].pc = "get" /\ tasks'[t].pc = "got") => running]_vars

\* C19: when the shutdown sequence has completed the three queues are empty
\* and every worker task has ended.
DrainedAfterShutdown ==
    lifespan = "stopped" =>
        /\ translation_queue = <<>>
        /\ tts_queue = <<>>
        /\ audio_play_queue = <<>>
        /\ \A t \in DOMAIN tasks : tasks[t].pc \in {"none", "done"}

\* C20: the supervisor only moves forward along Idle, Starting, Running,
\* Stopping, Stopped: it becomes Running only from its initial state, never
\* again after it has left Running.
RunningOnlyOnce ==
    [][(~running /\ running') => generation = 0]_vars

\* C21: startup is ordered.  The worker system exists, has been started or is
\* running only when the TTS engine passed its health check; when the check
\* failed, startup has failed, no worker task was ever created, and every
\* request with a valid body is answered 503 and puts nothing on the T-queue.
StartupOrdered ==
    /\ (running \/ generation > 0 \/ worker_system # "None") =>
           tts_engine # "None"
    /\ lifespan = "failed" =>
           /\ ~running
           /\ generation = 0
           /\ \A t \in DOMAIN tasks : tasks[t] = NoTask
           /\ \A h \in DOMAIN requests :
                  (requests[h].pc = "done" /\ valid_request(requests[h].text)) =>
                      /\ requests[h].code = HTTP_503_SERVICE_UNAVAILABLE
                      /\ enqueued_by(requests[h]) = {}

\* the health check has failed and a request that arrived afterwards has
\* been answered 503
RefusedAfterFailedStartup ==
    /\ lifespan = "failed"
    /\ \E h \in DOMAIN requests :
           /\ requests[h].pc = "done"
           /\ valid_request(requests[h].text)
           /\ ~blank(requests[h].text)
           /\ requests[h].code = HTTP_503_SERVICE_UNAVAILABLE

\* the response carries the number n under one of the names
reports(response, names, n) ==
    \E name \in names : name \in DOMAIN response /\ response[name] = n

\* the response carries the six counters with their current values
reports_counters(response) ==
    \/ "stats" \in DOMAIN response /\ response.stats = stats
    \/ /\ "translation_stats" \in DOMAIN response
       /\ "tts_stats" \in DOMAIN response
       /\ \A k \in DOMAIN stats :
              \E part \in {response.translation_stats, response.tts_stats} :
                  k \in DOMAIN part /\ part[k] = stats[k]

\* C22: a GET /health answered before startup has finished is answered 503;
\* once startup has finished it is answered 200 with status "ok", the
\* current sizes of the translation, the TTS and the playback queue and the
\* current values of the six counters.
HealthReportsPipeline ==
    [][health' # health =>
           IF worker_system = "None"
           THEN health'.code = HTTP_503_SERVICE_UNAVAILABLE
           ELSE /\ health'.code = HTTP_200_OK
                /\ health'.status = "ok"
                /\ reports(health', {"translation_queue_size"},
                           Len(translation_queue))
                /\ reports(health', {"tts_queue_size"}, Len(tts_queue))
                /\ reports(health', {"playback_queue_size",
                                     "audio_play_queue_size"},
                           Len(audio_play_queue))
                /\ reports_counters(health')]_vars

\* handler h stops waiting for dedup_check in this step while the dedup lock
\* is held by someone else
lock_timeout_step(h) ==
    /\ h \in DOMAIN requests
    /\ requests[h].pc = "dedup"
    /\ dedup_lock = "held"
    /\ Len(requests') = Len(requests)
    /\ requests'[h] # requests[h]

\* C23: a handler that cannot get the dedup lock within the timeout answers
\* 503: in that step nothing is put on a queue, no job is handed to the
\* pipeline, and last_text and last_time stay as they were.
LockTimeoutRefused ==
    [][\A h \in 1..MaxRequests :
           lock_timeout_step(h) =>
               /\ requests'[h].pc = "done"
               /\ requests'[h].code = HTTP_503_SERVICE_UNAVAILABLE
               /\ UNCHANGED <<queues, accepted, last_translation,
                              last_translation_time>>]_vars

\* a request has been refused for the lock on a running server whose dedup
\* state holds the text of an earlier request that is still on the T-queue
RefusedForLock ==
    \E h \in DOMAIN requests :
        /\ requests[h].pc = "done"
        /\ requests[h].code = HTTP_503_SERVICE_UNAVAILABLE
        /\ requests[h].was_running
        /\ last_translation = requests[h].text
        /\ Len(translation_queue) = 1

\* C24: postprocess_for_tts is idempotent: applied to its own output it
\* returns that output unchanged.
NormalizerIdempotent ==
    Len(normalizer.results) = 2 => normalizer.results[2] = normalizer.results[1]

\* the positions of the thinking blocks of a line
thinking_blocks(line) ==
    {i \in DOMAIN line.content : line.content[i].type = "thinking"}

\* the last of a non-empty set of positions
last_of(positions) == CHOOSE i \in positions : \A j \in positions : j <= i

\* C26 as stated: get_last_thinking returns the thinking text (surrounding
\* whitespace aside) of a thinking block of the last transcript record that
\* contains a thinking block, and None when no record contains one.
ThinkingOfLastRecord ==
    hook.pc # "none" =>
        LET with_block == {i \in DOMAIN transcript :
                              thinking_blocks(transcript[i]) # {}}
        IN  IF with_block = {} THEN hook.thinking = NoText
            ELSE LET record == transcript[last_of(with_block)] IN
                 \E i \in thinking_blocks(record) :
                     hook.thinking = strip(record.content[i].thinking)

\* what a line has to say: the text, stripped, of its first thinking block
\* whose text is not empty; nothing when it has no such block
said(line) ==
    LET filled == {i \in thinking_blocks(line) :
                      line.content[i].thinking # <<>>}
    IN  IF filled = {} THEN <<>>
        ELSE strip(line.content[CHOOSE i \in filled :
                                    \A j \in filled : i <= j].thinking)

\* C26: get_last_thinking returns what the last transcript record that has
\* something to say says: the stripped text of its first thinking block with
\* a non-empty text.  Records without such a block, records where that text
\* is only whitespace, and unparsable lines are skipped; the result is None
\* when no record is left.
SaidByLastRecord ==
    hook.pc # "none" =>
        LET saying == {i \in DOMAIN transcript : said(transcript[i]) # <<>>}
        IN  IF saying = {} THEN hook.thinking = NoText
            ELSE hook.thinking = said(transcript[last_of(saying)])

\* the parser has returned the stripped thinking of the first of two
\* records, the second having a thinking block with nothing in it
EarlierRecordReturned ==
    /\ hook.pc # "none"
    /\ Len(transcript) = 2
    /\ thinking_blocks(transcript[2]) # {}
    /\ said(transcript[2]) = <<>>
    /\ \E i \in thinking_blocks(transcript[1]) :
           transcript[1].content[i].thinking = <<"a", " ">>
    /\ hook.thinking = <<"a">>

holds(stage, id) ==
    \E gen \in Generations :
        /\ task(stage, gen).pc \in {"got", "sem", "call"}
        /\ task(stage, gen).req.request_id = id

queued(queue, id) == \E i \in DOMAIN queue : queue[i].request_id = id

\* the TTS worker has counted the job and sleeps 0.1 s before task_done
cooling(id) ==
    \E gen \in Generations :
        /\ task("tts", gen).pc = "sleep"
        /\ task("tts", gen).req.request_id = id

\* where a job is, in the order of the pipeline
places(id) ==
    {place \in 1..6 :
        \/ place = 1 /\ queued(translation_queue, id)
        \/ place = 2 /\ holds("translation", id)
        \/ place = 3 /\ queued(tts_queue, id)
        \/ place = 4 /\ holds("tts", id)
        \/ place = 5 /\ queued(audio_play_queue, id)
        \/ place = 6 /\ holds("audio_play", id)}

failed_key(stage) ==
    CASE stage = "translation" -> "translation_failed"
      [] stage = "tts" -> "tts_failed"
      [] stage = "audio_play" -> "audio_play_failed"

\* C27: when a stage's work on a job fails, exactly that stage's failed
\* counter goes up by one and no other counter changes, nothing is put on any
\* queue, the job is with no queue and no worker afterwards, and a job that
\* has left the pipeline never comes back to any stage.
FailedJobDropped ==
    [][/\ \A stage \in Stages :
              stats'[failed_key(stage)] # stats[failed_key(stage)] =>
                  /\ stats' = [stats EXCEPT ![failed_key(stage)] = @ + 1]
                  /\ UNCHANGED queues
                  /\ \E id \in DOMAIN accepted :
                         /\ holds(stage, id)
                         /\ places(id)' = {}
       /\ \A id \in DOMAIN accepted :
              places(id) = {} => places(id)' = {}]_vars

\* both accepted jobs have failed, one in translation and one in synthesis,
\* and neither is anywhere in the pipeline
FailedJobsGone ==
    /\ Len(accepted) = 2
    /\ stats.translation_failed = 1
    /\ stats.tts_failed = 1
    /\ \A id \in DOMAIN accepted : places(id) = {}

\* where a job is when the TTS worker counts as holding it until task_done
places_until_task_done(id) ==
    places(id) \cup {place \in {4} : cooling(id)}

ids(queue) == {queue[i].request_id : i \in DOMAIN queue}

checks(h) ==
    /\ h \in DOMAIN requests
    /\ requests[h].pc = "dedup"
    /\ Len(requests') = Len(requests)
    /\ requests'[h].pc = "decided"

\* handler g has been through dedup_check as a new text
passed_as_new(g) ==
    /\ requests[g].pc \in {"decided", "done"}
    /\ requests[g].status # "error"
    /\ ~requests[g].is_duplicate

\* C29: _last_translation and _last_translation_time are written only
\* together, in the dedup_check of one request that is not a duplicate, as the
\* text of that request and the time of its check; and when a handler runs
\* dedup_check while another handler with the same text has passed as new and
\* the recorded pair is that text, at most the window old, the checking
\* handler is a duplicate, leaves the pair alone and is answered "skipped",
\* the other "queued".
DedupAtomic ==
    [][/\ \/ UNCHANGED <<last_translation, last_translation_time>>
          \/ \E h \in DOMAIN requests :
                 /\ checks(h)
                 /\ ~requests'[h].is_duplicate
                 /\ last_translation' = requests[h].text
                 /\ last_translation_time' = wall
                 /\ \A g \in DOMAIN requests \ {h} :
                        requests'[g] = requests[g]
       /\ \A h \in DOMAIN requests : \A g \in DOMAIN requests \ {h} :
              (/\ checks(h)
               /\ passed_as_new(g)
               /\ requests[g].text = requests[h].text
               /\ last_translation = requests[h].text
               /\ wall - last_translation_time <= DEDUP_WINDOW)
              => /\ requests'[h].is_duplicate
                 /\ UNCHANGED <<last_translation, last_translation_time>>
       /\ \A h \in DOMAIN requests :
              (/\ requests[h].pc = "decided"
               /\ Len(requests') = Len(requests)
               /\ requests'[h].pc = "done")
              => requests'[h].status =
                     IF requests[h].is_duplicate THEN "skipped"
                     ELSE "queued"]_vars

\* two handlers with the same text have both been through dedup_check before
\* either has answered: the first passed as new and wrote the pair, the
\* second, checked in the same second, is a duplicate
InterleavedPairDecided ==
    /\ Len(requests) = 2
    /\ requests[1].text = requests[2].text
    /\ requests[1].pc = "decided"
    /\ ~requests[1].is_duplicate
    /\ requests[2].pc = "decided"
    /\ requests[2].is_duplicate
    /\ requests[2].elapsed = 0
    /\ last_translation = requests[1].text
    /\ last_translation_time = wall

\* stop() called cancel() on the task of stage a before that of stage b
cancelled_before(call, a, b) ==
    \E i, j \in DOMAIN call.cancelled :
        /\ i < j
        /\ call.cancelled[i] = a
        /\ call.cancelled[j] = b

\* C30: on shutdown the workers are cancelled in reverse stage order, the
\* audio play worker before the TTS worker and the TTS worker before the
\* translation worker.
CancelledInReverseStageOrder ==
    \A call \in stopping :
        /\ cancelled_before(call, "audio_play", "tts")
        /\ cancelled_before(call, "tts", "translation")

\* the stop() calls that return in this step
returned ==
    {call \in stopping :
        \A other \in stopping' :
            other.gen # call.gen \/ other.caller # call.caller}

\* C31: stop() always terminates, with or without the timeout; when it
\* returns the three workers have ended and the supervisor is not running;
\* cleanup() of the TTS engine runs only after the stop() of lifespan has
\* returned; and after cleanup() no synthesis call is in flight or started.
StopTerminates ==
    /\ (stopping # {}) ~> (stopping = {})
    /\ [][/\ \A call \in returned : workers_ended(call.gen) /\ ~running
          /\ (tts_engine # "closed" /\ tts_engine' = "closed") =>
                 /\ lifespan = "stopping"
                 /\ \A call \in stopping : call.caller # "lifespan"
                 /\ ~running
          /\ tts_engine' = "closed" => in_synthesis' = {}]_vars

\* the timeout of lifespan's stop() has expired, the workers it cancelled
\* again have ended and stop() is about to return; the engine is not yet
\* closed
StoppedAfterTimeout ==
    /\ lifespan = "stopping"
    /\ tts_engine = "ready"
    /\ ~running
    /\ \E call \in stopping :
           /\ call.caller = "lifespan"
           /\ call.timed_out
           /\ workers_ended(call.gen)

\* C32: every TTSRequest on the TTS queue has a non-empty japanese_text, and
\* the step in which the translator's normalized output is empty puts nothing
\* on the TTS queue and counts translation_failed.
TTSTextNonEmpty ==
    [][/\ \A i \in DOMAIN tts_queue' : tts_queue'[i].japanese_text # <<>>
       /\ \A gen \in Generations : \A reply \in ModelReplies \cup EmptyReplies :
              (/\ TranslationReturn(gen, reply)
               /\ translate_to_japanese(task("translation", gen).req.text,
                                        reply).text = <<>>)
              => /\ tts_queue' = tts_queue
                 /\ stats'.translation_failed = stats.translation_failed + 1
      ]_vars

\* the AudioPlayRequests in the audio play queue and with the audio play
\* worker
play_requests ==
    {audio_play_queue[i] : i \in DOMAIN audio_play_queue}
    \cup {tasks[t].req : t \in {u \in DOMAIN tasks :
                                   /\ u[1] = "audio_play"
                                   /\ tasks[u].pc \in {"got", "call"}}}

\* the file tts_<request_id>.wav of the temp audio directory
clip_of(request_id) == <<"audio/tmp", "tts_", request_id, ".wav">>

\* C33: every AudioPlayRequest has delete_after_play set and the path
\* audio/tmp/tts_<request_id>.wav of its own request_id; the request the TTS
\* worker puts carries the request_id of the TTSRequest it synthesized; two
\* requests with different request_ids have different paths; and the step in
\* which the audio play worker unlinks removes the file of the job it holds
\* and no other.
ClipPerRequest ==
    [][/\ \A req \in play_requests' :
              /\ req.delete_after_play
              /\ req.audio_path = clip_of(req.request_id)
       /\ \A a \in play_requests', b \in play_requests' :
              a.request_id # b.request_id => a.audio_path # b.audio_path
       /\ Len(audio_play_queue') > Len(audio_play_queue) =>
              \E gen \in Generations :
                  /\ task("tts", gen).pc = "call"
                  /\ audio_play_queue'[Len(audio_play_queue')].request_id =
                         task("tts", gen).req.request_id
                  /\ audio_play_queue'[Len(audio_play_queue')].audio_path
                         \in files'
       /\ files' # files /\ files' \subseteq files =>
              \E gen \in Generations :
                  /\ task("audio_play", gen).pc = "call"
                  /\ files \ files' =
                         {clip_of(task("audio_play", gen).req.request_id)}]_vars

\* the clip of the first job has been played and deleted while the clip of
\* the second is still waiting in the audio play queue
FirstClipDeletedSecondKept ==
    /\ clip_of(1) \notin files
    /\ clip_of(2) \in files
    /\ stats.audio_play_processed = 1
    /\ \E i \in DOMAIN audio_play_queue : audio_play_queue[i].request_id = 2

\* C34: a dedup_check that reports a duplicate leaves last_time (and
\* last_text) as the last accepted request set them, and a request with the
\* text of the last accepted request that is checked more than the window
\* after it is not a duplicate: it is accepted and last_time becomes the time
\* of its check.
SkippedKeepsWindow ==
    [][\A h \in DOMAIN requests :
           checks(h) =>
               /\ requests'[h].is_duplicate =>
                      UNCHANGED <<last_translation, last_translation_time,
                                  last_mono>>
               /\ (/\ requests[h].text = last_translation
                   /\ last_translation_time # NoTime
                   /\ wall - last_translation_time > DEDUP_WINDOW)
                  => /\ ~requests'[h].is_duplicate
                     /\ last_translation_time' = wall]_vars

\* three requests with the same text: the first was accepted, the second
\* skipped within the window, and the third, two seconds after the first, is
\* answered "queued"
StreamAcceptedAgain ==
    /\ arrivals = 3
    /\ Len(accepted) = 2
    /\ accepted[1].text = accepted[2].text
    /\ Len(requests) = 1
    /\ requests[1].pc = "done"
    /\ requests[1].status = "queued"
    /\ requests[1].seen_text = requests[1].text
    /\ requests[1].elapsed = 2
    /\ wall = 2

\* C35: the deduplicator compares a text with the most recently accepted text
\* only: a request whose text was accepted before the last accepted request,
\* and differs from that one, is not a duplicate and is answered "queued",
\* whatever the time.
OnlyLastTextRemembered ==
    [][\A h \in DOMAIN requests :
           /\ (/\ checks(h)
               /\ Len(accepted) >= 2
               /\ requests[h].text = accepted[Len(accepted) - 1].text
               /\ requests[h].text # accepted[Len(accepted)].text)
              => /\ ~requests'[h].is_duplicate
                 /\ last_translation' = requests[h].text
           /\ (/\ requests[h].pc = "decided"
               /\ ~requests[h].is_duplicate
               /\ Len(requests') = Len(requests)
               /\ requests'[h].pc = "done")
              => /\ requests'[h].status = "queued"
                 /\ Len(accepted') = Len(accepted) + 1]_vars

\* the texts A, B, A have all been accepted within the same second
ThreeQueuedWithinWindow ==
    /\ Len(accepted) = 3
    /\ accepted[1].text = accepted[3].text
    /\ accepted[1].text # accepted[2].text
    /\ wall = 0
    /\ Len(translation_queue) = 3

\* the worker of the stage starts its call (translate, synthesize, play) for
\* job id in this step
starts_call(stage, id) ==
    \E gen \in Generations :
        /\ task(stage, gen).pc # "call"
        /\ tasks'[<<stage, gen>>].pc = "call"
        /\ tasks'[<<stage, gen>>].req.request_id = id

\* C36: with one worker per stage, jobs are synthesized and played in the
\* order in which they were accepted: when the synthesis of a job starts,
\* every job accepted before it has left the translation and TTS stages, and
\* when its playback starts, every job accepted before it has left the
\* pipeline.
AcceptanceOrderKept ==
    [][\A b \in DOMAIN accepted : \A a \in 1..(b - 1) :
           /\ starts_call("tts", b) => places(a)' \subseteq {5, 6}
           /\ starts_call("audio_play", b) => places(a)' = {}]_vars

\* the second job is being played after the first was played to its end
SecondPlayedAfterFirst ==
    /\ places(2) = {6}
    /\ \E gen \in Generations : task("audio_play", gen).pc = "call"
    /\ places(1) = {}
    /\ stats.audio_play_processed = 1
    /\ stats.tts_processed = 2

\* the number of jobs the workers of a stage hold
held(stage) ==
    Cardinality({gen \in Generations :
                    task(stage, gen).pc \in {"got", "sem", "call"}})

\* the jobs of the audio play stage: queued, held, played or failed
in_playback ==
    Len(audio_play_queue) + held("audio_play")
    + stats.audio_play_processed + stats.audio_play_failed

\* the TTS worker puts an AudioPlayRequest in this step
produces_clip ==
    \E gen \in Generations :
        /\ task("tts", gen).pc = "call"
        /\ tasks'[<<"tts", gen>>].pc = "sleep"
        /\ ~task("tts", gen).req.return_audio

\* C37: while the supervisor is running no job is lost or counted twice: the
\* accepted requests are those on the translation queue, held by the
\* translation worker, or counted by it as processed or failed; the jobs
\* counted translation_processed are those on the TTS queue, held by the TTS
\* worker, or counted by it; and the jobs of the audio play stage (queued,
\* held, counted) grow by one exactly in the steps in which the TTS worker
\* puts an AudioPlayRequest, and never by anything else.
JobsConserved ==
    [][running' =>
         /\ Len(accepted') =
                Len(translation_queue') + held("translation")'
                + stats'.translation_processed + stats'.translation_failed
         /\ stats'.translation_processed =
                Len(tts_queue') + held("tts")'
                + stats'.tts_processed + stats'.tts_failed
         /\ running =>
                in_playback' = in_playback + (IF produces_clip THEN 1 ELSE 0)
         /\ in_playback' <= stats'.tts_processed]_vars

\* two accepted jobs, one dropped by the TTS worker and one played
OnePlayedOneDropped ==
    /\ running
    /\ Len(accepted) = 2
    /\ stats.translation_processed = 2
    /\ stats.tts_failed = 1
    /\ stats.tts_processed = 1
    /\ stats.audio_play_processed = 1
    /\ in_playback = 1

\* job id is with no queue and no worker
terminal(id) == id \in DOMAIN accepted /\ places(id) = {} /\ ~cooling(id)

\* the accepted jobs whose clip is in the temp directory
clips_left(return_audio) ==
    Cardinality({id \in DOMAIN accepted :
                    /\ accepted[id].return_audio = return_audio
                    /\ clip_of(id) \in files})

\* the queues are empty and every accepted job has ended in one of the
\* terminal states: dropped and counted as failed, synthesized for
\* return_audio with its clip kept, or played with its clip deleted (the
\* clips left of jobs that were to be played are those whose playback failed)
Drained ==
    /\ translation_queue = <<>>
    /\ tts_queue = <<>>
    /\ audio_play_queue = <<>>
    /\ \A id \in DOMAIN accepted : terminal(id)
    /\ clips_left(FALSE) = stats.audio_play_failed
    /\ Len(accepted) =
           stats.translation_failed + stats.tts_failed
           + stats.audio_play_failed + stats.audio_play_processed
           + clips_left(TRUE)

consumers(stage) ==
    {gen \in Generations :
        /\ task(stage, gen).pc \in {"get", "got", "sem", "call", "sleep"}
        /\ ~task(stage, gen).cancelled}

\* a worker task is created in this step
task_created ==
    \E t \in DOMAIN tasks : tasks[t].pc = "none" /\ tasks'[t].pc # "none"

\* cancel() is called on a worker task in this step
task_cancelled ==
    \E t \in DOMAIN tasks : ~tasks[t].cancelled /\ tasks'[t].cancelled

\* C39: start() while running creates no task, stop() while not running
\* cancels nothing, and whatever start() and stop() calls were made, no stage
\* has two worker tasks consuming its queue at the same time.
OneWorkerPerStage ==
    [][/\ task_created => ~running /\ running'
       /\ task_cancelled => running \/ stopping # {}
       /\ \A stage \in Stages : Cardinality(consumers(stage)') <= 1]_vars

=============================================================================
